---- MODULE Spec2Model ----
(***************************************************************************)
(* State-machine model of the stream commands of miniredis                 *)
(* (src/cmd_stream.go) together with the SET command of                    *)
(* src/unnamed/part_000.                                                   *)
(*                                                                         *)
(* The command handlers (cmdXadd, cmdXdel, cmdXack, cmdXreadgroup,         *)
(* xreadgroup, cmdXread, xread, makeCmdXrange, cmdXgroupCreate,            *)
(* cmdXpending, ...) are translated from the source.  The stream engine    *)
(* they call (streamKey.add/trim/delete/createGroup, streamGroup           *)
(* readGroup/ack, streamCmp, parseStreamID, formatStreamRangeBound,        *)
(* db.stream, db.newStream, blocking, withTx) is not part of the audited   *)
(* sources; it is modelled from sections 3, 4 and 5 of the specification.  *)
(***************************************************************************)
EXTENDS Integers, Sequences, FiniteSets, TLC

VARIABLES
    keys,        \* db.keys: key -> type tag ("stream", "string"); a Go map
    streamKeys,  \* db.streamKeys: key -> stream; a Go map
    keyVersion,  \* db.keyVersion: key -> counter, 0 when absent
    now,         \* the virtual clock (m.effectiveNow()), in milliseconds
    lock,        \* holder of the database lock, or NoClient
    conn,        \* per client: the state of its blocking read
    last,        \* the last command executed and the replies it wrote
    history      \* ghost: per key, the IDs accepted by the stream now at key

vars == <<keys, streamKeys, keyVersion, now, lock, conn, last, history>>

(***************************************************************************)
(* Bounds of the model.                                                    *)
(***************************************************************************)
MaxMs == 2        \* explicit IDs and the clock range over 0..MaxMs
MaxSeq == 1       \* explicit IDs have a sequence number in 0..MaxSeq
MaxVersion == 3   \* a key's version counter is bumped at most this often
MaxGroupVersion == 2   \* the same where consumer groups are explored
MaxBlock == 1     \* the BLOCK timeout of a read that has one, in milliseconds

Keys == {"s1", "s2"}
Groups == {"g"}
Consumers == {"alice", "bob"}
Clients == {"c1", "c2"}
NoClient == "none"

(***************************************************************************)
(* Entry IDs.  The source keeps an ID as the text "<millis>-<seq>"; the    *)
(* model keeps the pair <<millis, seq>>.  A token is what a client sends   *)
(* where an ID is expected.                                                *)
(***************************************************************************)
ID(ms, seq) == <<ms, seq>>
ZeroID == ID(0, 0)
IDs == (0..MaxMs) \X (0..MaxSeq)

\* Tokens are records of one shape so that any two of them can be compared.
Tok(id) == [ms |-> id[1], seq |-> id[2], k |-> "id"]   \* "<millis>-<seq>"
Num(n) == [ms |-> n, seq |-> 0, k |-> "int"]           \* the text of integer n
Kw(w) == [ms |-> 0, seq |-> 0, k |-> w]                \* any other word
\* the ID a token of the form "<millis>-<seq>" stands for
IdOf(tok) == ID(tok.ms, tok.seq)
Star == Kw("*")
Gt == Kw(">")
Malformed == Kw("1-x")
IDToks == {Tok(id) : id \in IDs}

\* compare(a, b) of section 4.1: lexicographic on (millis, seq)
streamCmp(a, b) ==
    IF a[1] < b[1] THEN -1
    ELSE IF a[1] > b[1] THEN 1
    ELSE IF a[2] < b[2] THEN -1
    ELSE IF a[2] > b[2] THEN 1
    ELSE 0

\* parse(token) of section 4.1: "<millis>-<seq>", or "<millis>" with the
\* sequence number defaulting to 0; fails on anything else
parseStreamID(tok) ==
    IF tok.k = "id" THEN [ok |-> TRUE, id |-> ID(tok.ms, tok.seq)]
    ELSE IF tok.k = "int" /\ tok.ms >= 0 THEN [ok |-> TRUE, id |-> ID(tok.ms, 0)]
    ELSE [ok |-> FALSE, id |-> ZeroID]

\* strconv.Atoi
Atoi(tok) == [ok |-> tok.k = "int", n |-> tok.ms]

\* strings.ToUpper and strings.ToLower on ASCII text: every letter is mapped,
\* any other character is kept
LowerLetters ==
    <<"a", "b", "c", "d", "e", "f", "g", "h", "i", "j", "k", "l", "m",
      "n", "o", "p", "q", "r", "s", "t", "u", "v", "w", "x", "y", "z">>
UpperLetters ==
    <<"A", "B", "C", "D", "E", "F", "G", "H", "I", "J", "K", "L", "M",
      "N", "O", "P", "Q", "R", "S", "T", "U", "V", "W", "X", "Y", "Z">>
\* the character c with the letters of from replaced by those of to
MapChar(c, from, to) ==
    IF \E i \in 1..Len(from) : from[i] = c
    THEN to[CHOOSE i \in 1..Len(from) : from[i] = c]
    ELSE c
\* the text w with the letters of from replaced by those of to is the text
\* folded; the two are compared character by character
Folds(w, folded, from, to) ==
    \/ w = folded
    \/ /\ Len(w) = Len(folded)
       /\ \A i \in 1..Len(w) :
            MapChar(SubSeq(w, i, i), from, to) = SubSeq(folded, i, i)

\* strings.ToUpper(tok) == w, w in upper case
IsWord(tok, w) == Folds(tok.k, w, LowerLetters, UpperLetters)
\* strings.ToLower(tok) == w, w in lower case
IsLowerWord(tok, w) == Folds(tok.k, w, UpperLetters, LowerLetters)

\* Go maps: m[k] = v and delete(m, k)
Put(m, k, v) == [x \in DOMAIN m \cup {k} |-> IF x = k THEN v ELSE m[x]]
Del(m, k) == [x \in DOMAIN m \ {k} |-> m[x]]

Max(a, b) == IF a >= b THEN a ELSE b
Min(a, b) == IF a <= b THEN a ELSE b

RECURSIVE SelectIdx(_, _, _)
\* the subsequence of s at the indices i >= from with keep[i]
SelectIdx(s, keep, from) ==
    IF from > Len(s) THEN <<>>
    ELSE (IF keep[from] THEN <<s[from]>> ELSE <<>>) \o SelectIdx(s, keep, from + 1)

Filter(s, P(_)) == SelectIdx(s, [i \in 1..Len(s) |-> P(s[i])], 1)
\* F of the value of v, which is evaluated once
With(v, F(_)) == CHOOSE t \in {F(x) : x \in {v}} : TRUE
Range(s) == {s[i] : i \in 1..Len(s)}
Take(s, n) == SubSeq(s, 1, Min(n, Len(s)))

(***************************************************************************)
(* Replies written to the client (the server.Peer Write* calls).           *)
(***************************************************************************)
msgInvalidStreamID == "ERR Invalid stream ID specified as stream command argument"
msgInvalidInt == "ERR value is not an integer or out of range"
msgMaxlenNegative == "ERR The MAXLEN argument must be >= 0."
msgXaddArgs == "ERR wrong number of arguments for XADD"
msgWrongType == "WRONGTYPE Operation against a key holding the wrong kind of value"
msgWrongNumber == "ERR wrong number of arguments"
msgXgroupKeyNotFound == "ERR The XGROUP subcommand requires the key to exist"
msgGroupExists == "BUSYGROUP Consumer Group name already exists"
msgInvalidEntryID == "stream ID is invalid"
msgNoGroup == "NOGROUP No such key or consumer group"

WriteError(msg) == [t |-> "error", msg |-> msg]
WriteBulk(v) == [v |-> v, t |-> "bulk"]   \* v is a token
WriteInt(n) == [n |-> n, t |-> "int"]
WriteLen(n) == [n |-> n, t |-> "len"]
WriteOK == [v |-> Kw("OK"), t |-> "inline"]
WriteNil == [t |-> "nil"]
NullReply == WriteLen(-1)

(***************************************************************************)
(* The stream log (section 4.2).                                           *)
(***************************************************************************)
\* a fresh stream: no entries, no groups, nothing appended yet
newStreamKey == [entries |-> <<>>, lastID |-> ZeroID, groups |-> <<>>]

\* wildcard ID: max(now, last.millis), seq 0 when the millis moved on
generateID(s, t) ==
    LET ms == Max(t, s.lastID[1])
    IN  IF ms > s.lastID[1] THEN ID(ms, 0) ELSE ID(ms, s.lastID[2] + 1)

\* append: the result carries the error (if any), the new ID and the stream
streamAdd(s, tok, values, t) ==
    IF tok.k = "*"
    THEN LET id == generateID(s, t)
         IN  [err |-> "", id |-> id,
              s |-> [s EXCEPT !.entries = Append(@, [ID |-> id, Values |-> values]),
                              !.lastID = id]]
    ELSE LET p == parseStreamID(tok)
         IN  IF ~p.ok \/ streamCmp(p.id, s.lastID) # 1
             THEN [err |-> "errInvalidEntryID", id |-> ZeroID, s |-> s]
             ELSE [err |-> "", id |-> p.id,
                   s |-> [s EXCEPT !.entries = Append(@, [ID |-> p.id, Values |-> values]),
                                   !.lastID = p.id]]

\* trim(maxLen): keep the maxLen most recent entries
streamTrim(s, n) ==
    IF Len(s.entries) > n
    THEN [s EXCEPT !.entries = SubSeq(@, Len(@) - n + 1, Len(@))]
    ELSE s

\* the IDs a list of tokens names
IdsOf(ids) == {parseStreamID(ids[i]).id : i \in 1..Len(ids)}
\* one of the tokens is not an ID (section 7: a malformed ID is an error and
\* nothing is changed)
AnyMalformed(ids) == \E i \in 1..Len(ids) : ~parseStreamID(ids[i]).ok

\* delete(ids): remove the entries whose ID is one of ids; count them
streamDelete(s, ids) ==
    LET kept == Filter(s.entries, LAMBDA e : e.ID \notin IdsOf(ids))
    IN  IF AnyMalformed(ids) THEN [err |-> msgInvalidStreamID, n |-> 0, s |-> s]
        ELSE [err |-> "", n |-> Len(s.entries) - Len(kept),
              s |-> [s EXCEPT !.entries = kept]]

(***************************************************************************)
(* Consumer groups (section 4.3).  A group is a cursor, the pending rows    *)
(* sorted by ID, and the names of the consumers seen.                      *)
(***************************************************************************)
newStreamGroup(id) == [lastID |-> id, pending |-> <<>>, consumers |-> {}]

\* create(groupName, startID): "$" stands for the stream's last ID
createGroup(s, group, tok) ==
    LET p == IF tok.k = "$" THEN [ok |-> TRUE, id |-> s.lastID] ELSE parseStreamID(tok)
    IN  IF group \in DOMAIN s.groups THEN [err |-> msgGroupExists, s |-> s]
        ELSE IF ~p.ok THEN [err |-> msgInvalidStreamID, s |-> s]
        ELSE [err |-> "", s |-> [s EXCEPT !.groups = Put(@, group, newStreamGroup(p.id))]]

\* readGroup(now, consumer, id, count, noack) on group g of a stream with the
\* given entries: the entries delivered and the group afterwards
readGroup(g, entries, t, consumer, tok, count, noack) ==
    LET seen == [g EXCEPT !.consumers = @ \cup {consumer}]
        fresh == Filter(entries, LAMBDA e : streamCmp(e.ID, g.lastID) = 1)
        new == IF count > 0 THEN Take(fresh, count) ELSE fresh
        rows == [i \in 1..Len(new) |->
                    [id |-> new[i].ID, consumer |-> consumer,
                     lastDelivery |-> t, deliveryCount |-> 1]]
        from == parseStreamID(tok).id
        mine == {g.pending[i].id : i \in {j \in 1..Len(g.pending) :
                    /\ g.pending[j].consumer = consumer
                    /\ streamCmp(g.pending[j].id, from) = 1}}
    IN  IF tok.k = ">"
        THEN IF new = <<>> THEN [entries |-> <<>>, g |-> seen]
             ELSE [entries |-> new,
                   g |-> [seen EXCEPT !.lastID = new[Len(new)].ID,
                                      !.pending = IF noack THEN @ ELSE @ \o rows]]
        ELSE [entries |-> Filter(entries, LAMBDA e : e.ID \in mine), g |-> seen]

\* ack(ids): drop the pending rows whose ID is one of ids; count them
ack(g, ids) ==
    LET kept == Filter(g.pending, LAMBDA r : r.id \notin IdsOf(ids))
    IN  IF AnyMalformed(ids) THEN [err |-> msgInvalidStreamID, n |-> 0, g |-> g]
        ELSE [err |-> "", n |-> Len(g.pending) - Len(kept),
              g |-> [g EXCEPT !.pending = kept]]

\* pendingCount(consumer)
pendingCount(g, consumer) ==
    Cardinality({i \in 1..Len(g.pending) : g.pending[i].consumer = consumer})

(***************************************************************************)
(* The database facade: typed keys, as Go maps.                            *)
(***************************************************************************)

\* db.stream(key): the stream at key, nil when the key does not exist, an
\* error when the key holds another type (ks is db.keys)
dbStreamIn(ks, key) ==
    IF key \notin DOMAIN ks THEN [err |-> "", nil |-> TRUE]
    ELSE IF ks[key] # "stream" THEN [err |-> msgWrongType, nil |-> TRUE]
    ELSE [err |-> "", nil |-> FALSE]
dbStream(key) == dbStreamIn(keys, key)

\* db.streamGroup(key, group): nil when the stream or the group is missing
dbStreamGroup(ks, sk, key, group) ==
    LET found == dbStreamIn(ks, key)
    IN  IF found.err # "" THEN found
        ELSE IF found.nil THEN found
        ELSE [err |-> "", nil |-> group \notin DOMAIN sk[key].groups]

\* the effect of a command: the replies written and the database it leaves
Effect(out, ks, sk, kv) == [out |-> out, keys |-> ks, streamKeys |-> sk, keyVersion |-> kv]
\* a command that only replies
Reply(out) == Effect(out, keys, streamKeys, keyVersion)

(***************************************************************************)
(* XADD (cmdXadd).  args are the arguments after the command name.         *)
(***************************************************************************)
\* lines 49-84: MAXLEN, the entry ID and the field/value pairs
xaddParse(args) ==
    LET hasMaxlen == IsLowerWord(args[1], "maxlen")
        a1 == IF hasMaxlen THEN Tail(args) ELSE args
        a2 == IF hasMaxlen /\ a1[1].k = "~" THEN Tail(a1) ELSE a1
        n == Atoi(a2[1])
        a3 == IF hasMaxlen THEN Tail(a2) ELSE args
        maxlen == IF hasMaxlen THEN n.n ELSE -1
        fail(msg) == [err |-> msg, maxlen |-> -1, entryID |-> Star, values |-> <<>>]
    IN  IF hasMaxlen /\ ~n.ok THEN fail(msgInvalidInt)
        ELSE IF hasMaxlen /\ n.n < 0 THEN fail(msgMaxlenNegative)
        ELSE IF Len(a3) < 1 THEN fail(msgWrongNumber)
        ELSE IF Len(Tail(a3)) = 0 \/ Len(Tail(a3)) % 2 # 0 THEN fail(msgXaddArgs)
        ELSE [err |-> "", maxlen |-> maxlen, entryID |-> a3[1], values |-> Tail(a3)]

\* mutant of xaddStore: a new stream is made on every XADD (the nil test is lost)
xaddStoreAlwaysNew(key, p) ==
    LET found == dbStream(key)
        \* db.newStream(key) registers an empty stream at key
        ks == Put(keys, key, "stream")
        s == newStreamKey
        r == streamAdd(s, p.entryID, p.values, now)
        trimmed == IF p.maxlen >= 0 THEN streamTrim(r.s, p.maxlen) ELSE r.s
    IN  IF found.err # "" THEN Reply(<<WriteError(found.err)>>)
        ELSE IF r.err # ""
        THEN Effect(<<WriteError(IF r.err = "errInvalidEntryID"
                                 THEN msgInvalidStreamID ELSE r.err)>>,
                    ks, Put(streamKeys, key, s), keyVersion)
        ELSE Effect(<<WriteBulk(Tok(r.id))>>, ks, Put(streamKeys, key, trimmed),
                    [keyVersion EXCEPT ![key] = @ + 1])

\* mutant of xaddStore: the error of the append is replied as it is
xaddStoreRawError(key, p) ==
    LET found == dbStream(key)
        \* db.newStream(key) registers an empty stream at key
        ks == IF found.nil THEN Put(keys, key, "stream") ELSE keys
        s == IF found.nil THEN newStreamKey ELSE streamKeys[key]
        r == streamAdd(s, p.entryID, p.values, now)
        trimmed == IF p.maxlen >= 0 THEN streamTrim(r.s, p.maxlen) ELSE r.s
    IN  IF found.err # "" THEN Reply(<<WriteError(found.err)>>)
        ELSE IF r.err # ""
        THEN Effect(<<WriteError(r.err)>>,
                    ks, Put(streamKeys, key, s), keyVersion)
        ELSE Effect(<<WriteBulk(Tok(r.id))>>, ks, Put(streamKeys, key, trimmed),
                    [keyVersion EXCEPT ![key] = @ + 1])

\* mutant of xaddStore: MAXLEN 0 does not trim
xaddStoreTrimPositive(key, p) ==
    LET found == dbStream(key)
        \* db.newStream(key) registers an empty stream at key
        ks == IF found.nil THEN Put(keys, key, "stream") ELSE keys
        s == IF found.nil THEN newStreamKey ELSE streamKeys[key]
        r == streamAdd(s, p.entryID, p.values, now)
        trimmed == IF p.maxlen > 0 THEN streamTrim(r.s, p.maxlen) ELSE r.s
    IN  IF found.err # "" THEN Reply(<<WriteError(found.err)>>)
        ELSE IF r.err # ""
        THEN Effect(<<WriteError(IF r.err = "errInvalidEntryID"
                                 THEN msgInvalidStreamID ELSE r.err)>>,
                    ks, Put(streamKeys, key, s), keyVersion)
        ELSE Effect(<<WriteBulk(Tok(r.id))>>, ks, Put(streamKeys, key, trimmed),
                    [keyVersion EXCEPT ![key] = @ + 1])

\* lines 86-112: find or create the stream, append, trim, bump the version
xaddStore(key, p) ==
    LET found == dbStream(key)
        \* db.newStream(key) registers an empty stream at key
        ks == IF found.nil THEN Put(keys, key, "stream") ELSE keys
        s == IF found.nil THEN newStreamKey ELSE streamKeys[key]
        r == streamAdd(s, p.entryID, p.values, now)
        trimmed == IF p.maxlen >= 0 THEN streamTrim(r.s, p.maxlen) ELSE r.s
    IN  IF found.err # "" THEN Reply(<<WriteError(found.err)>>)
        ELSE IF r.err # ""
        THEN Effect(<<WriteError(IF r.err = "errInvalidEntryID"
                                 THEN msgInvalidStreamID ELSE r.err)>>,
                    ks, Put(streamKeys, key, s), keyVersion)
        ELSE Effect(<<WriteBulk(Tok(r.id))>>, ks, Put(streamKeys, key, trimmed),
                    [keyVersion EXCEPT ![key] = @ + 1])

\* lines 32-114
xadd(args) ==
    IF Len(args) < 4 THEN Reply(<<WriteError(msgWrongNumber)>>)
    ELSE LET p == xaddParse(Tail(args))
         IN  IF p.err # "" THEN Reply(<<WriteError(p.err)>>)
             ELSE xaddStore(args[1].k, p)

\* the reply of a command is the bulk string of an entry ID
IsBulk(out) == Len(out) = 1 /\ out[1].t = "bulk"
IsError(out) == Len(out) >= 1 /\ out[1].t = "error"

\* the command is a well-formed XADD (it reaches the append)
IsXadd(args) == Len(args) >= 4 /\ xaddParse(Tail(args)).err = ""
\* ... whose entry ID is "*"
IsWildcard(args) == IsXadd(args) /\ xaddParse(Tail(args)).entryID.k = "*"
\* ... whose entry ID is a well-formed explicit ID
IsExplicit(args) == IsXadd(args) /\ parseStreamID(xaddParse(Tail(args)).entryID).ok

(***************************************************************************)
(* XDEL (cmdXdel).                                                         *)
(***************************************************************************)
\* XDEL that also drops the pending rows of the entries it deletes
xdelDropsPending(args) ==
    IF Len(args) < 2 THEN Reply(<<WriteError(msgWrongNumber)>>)
    ELSE LET stream == args[1].k
             ids == Tail(args)
             found == dbStream(stream)
             d == streamDelete(streamKeys[stream], ids)
             gs == [g \in DOMAIN d.s.groups |->
                        [d.s.groups[g] EXCEPT !.pending =
                            SelectIdx(@, [i \in 1..Len(@) |-> @[i].id \notin IdsOf(ids)], 1)]]
         IN  IF found.err # "" THEN Reply(<<WriteError(found.err)>>)
             ELSE IF found.nil THEN Reply(<<WriteInt(0)>>)
             ELSE IF d.err # "" THEN Reply(<<WriteError(d.err)>>)
             ELSE Effect(<<WriteInt(d.n)>>, keys,
                         Put(streamKeys, stream, [d.s EXCEPT !.groups = gs]),
                         [keyVersion EXCEPT ![stream] = @ + 1])

\* lines 567-596
xdel(args) ==
    IF Len(args) < 2 THEN Reply(<<WriteError(msgWrongNumber)>>)
    ELSE LET stream == args[1].k
             ids == Tail(args)
             found == dbStream(stream)
             d == streamDelete(streamKeys[stream], ids)
         IN  IF found.err # "" THEN Reply(<<WriteError(found.err)>>)
             ELSE IF found.nil THEN Reply(<<WriteInt(0)>>)
             ELSE IF d.err # "" THEN Reply(<<WriteError(d.err)>>)
             ELSE Effect(<<WriteInt(d.n)>>, keys, Put(streamKeys, stream, d.s),
                         [keyVersion EXCEPT ![stream] = @ + 1])

(***************************************************************************)
(* XGROUP CREATE (cmdXgroup, cmdXgroupCreate).                             *)
(***************************************************************************)
\* lines 279-308: args are CREATE stream group id [MKSTREAM]
xgroupCreate(args) ==
    LET stream == args[2].k
        found == dbStream(stream)
        mk == found.nil /\ Len(args) = 5 /\ IsWord(args[5], "MKSTREAM")
        \* db.newStream(stream) registers an empty stream at the key
        ks == IF mk THEN Put(keys, stream, "stream") ELSE keys
        s == IF mk THEN newStreamKey ELSE streamKeys[stream]
        r == createGroup(s, args[3].k, args[4])
    IN  IF found.err # "" THEN Reply(<<WriteError(found.err)>>)
        ELSE IF found.nil /\ ~mk THEN Reply(<<WriteError(msgXgroupKeyNotFound)>>)
        ELSE IF r.err # ""
        THEN Effect(<<WriteError(r.err)>>, ks, Put(streamKeys, stream, s), keyVersion)
        ELSE Effect(<<WriteOK>>, ks, Put(streamKeys, stream, r.s), keyVersion)

\* lines 267-276
xgroup(args) ==
    IF (Len(args) = 4 \/ Len(args) = 5) /\ IsWord(args[1], "CREATE")
    THEN xgroupCreate(args)
    ELSE Reply(<<WriteError("ERR 'XGROUP' not supported")>>)

(***************************************************************************)
(* Replies of the read commands (writeXread).                              *)
(***************************************************************************)
RECURSIVE Concat(_)
Concat(ss) == IF ss = <<>> THEN <<>> ELSE Head(ss) \o Concat(Tail(ss))

\* lines 743-750: one entry
writeEntry(entry) ==
    <<WriteLen(2), WriteBulk(Tok(entry.ID)), WriteLen(Len(entry.Values))>>
        \o [i \in 1..Len(entry.Values) |-> WriteBulk(entry.Values[i])]

\* writeXread that passes over the streams without entries
writeXreadOmitsEmpty(streams, res) ==
    LET full == {k \in DOMAIN res : res[k] # <<>>}
    IN  IF full = {} THEN <<WriteLen(-1)>>
        ELSE <<WriteLen(Cardinality(full))>> \o
             Concat([i \in 1..Len(streams) |->
                IF streams[i] \notin full THEN <<>>
                ELSE <<WriteLen(2), WriteBulk(Kw(streams[i])), WriteLen(Len(res[streams[i]]))>>
                     \o Concat([j \in 1..Len(res[streams[i]]) |->
                            writeEntry(res[streams[i]][j])])])

\* lines 729-752: res maps the streams that yielded something to their entries
writeXread(streams, res) ==
    IF DOMAIN res = {} THEN <<WriteLen(-1)>>
    ELSE <<WriteLen(Cardinality(DOMAIN res))>> \o
         Concat([i \in 1..Len(streams) |->
            IF streams[i] \notin DOMAIN res THEN <<>>
            ELSE <<WriteLen(2), WriteBulk(Kw(streams[i])), WriteLen(Len(res[streams[i]]))>>
                 \o Concat([j \in 1..Len(res[streams[i]]) |->
                        writeEntry(res[streams[i]][j])])])

\* lines 924-938
parseBlock(args) ==
    IF Len(args) < 2 THEN [err |-> msgWrongNumber, timeout |-> 0]
    ELSE IF ~Atoi(args[2]).ok THEN [err |-> msgInvalidInt, timeout |-> 0]
    ELSE IF Atoi(args[2]).n < 0 THEN [err |-> "ERR timeout is negative", timeout |-> 0]
    ELSE [err |-> "", timeout |-> Atoi(args[2]).n]

Names(toks) == [i \in 1..Len(toks) |-> toks[i].k]
Drop(s, n) == SubSeq(s, n + 1, Len(s))

(***************************************************************************)
(* XREADGROUP (cmdXreadgroup, xreadgroup).                                 *)
(***************************************************************************)
NoOpts ==
    [err |-> "", ids |-> <<>>, group |-> "", consumer |-> "", count |-> 0,
     noack |-> FALSE, streams |-> <<>>, dirty |-> FALSE, block |-> FALSE,
     blockTimeout |-> 0]

RECURSIVE xreadgroupOpts(_, _)
\* lines 388-426: the option loop
xreadgroupOpts(args, o) ==
    IF Len(args) = 0 THEN o
    ELSE IF IsWord(args[1], "COUNT")
    THEN IF Len(args) < 2 THEN [o EXCEPT !.err = msgWrongNumber]
         ELSE IF ~Atoi(args[2]).ok THEN [o EXCEPT !.err = "strconv.Atoi: invalid syntax"]
         ELSE xreadgroupOpts(Drop(args, 2), [o EXCEPT !.count = Atoi(args[2]).n])
    ELSE IF IsWord(args[1], "BLOCK")
    THEN IF parseBlock(args).err # "" THEN [o EXCEPT !.err = parseBlock(args).err]
         ELSE xreadgroupOpts(Drop(args, 2),
                [o EXCEPT !.block = TRUE, !.blockTimeout = parseBlock(args).timeout])
    ELSE IF IsWord(args[1], "NOACK")
    THEN xreadgroupOpts(Tail(args), [o EXCEPT !.noack = TRUE])
    ELSE IF IsWord(args[1], "STREAMS")
    THEN IF Len(Tail(args)) % 2 # 0
         THEN [o EXCEPT !.err = "ERR Unbalanced XREAD list of streams"]
         ELSE [o EXCEPT !.streams = Names(SubSeq(args, 2, 1 + (Len(args) - 1) \div 2)),
                        !.ids = Drop(args, 1 + (Len(args) - 1) \div 2)]
    ELSE [o EXCEPT !.err = "ERR incorrect argument"]

\* lines 360-444: the options of the command, or the error it replies with
\* the parse without the loop of lines 440-444
xreadgroupParseKeepsBlock(args) ==
    LET o == xreadgroupOpts(Drop(args, 3),
                [NoOpts EXCEPT !.group = args[2].k, !.consumer = args[3].k])
    IN  IF Len(args) < 6 THEN [NoOpts EXCEPT !.err = msgWrongNumber]
        ELSE IF ~IsWord(args[1], "GROUP") THEN [NoOpts EXCEPT !.err = "ERR syntax error"]
        ELSE IF o.err # "" THEN o
        ELSE IF Len(o.streams) = 0 \/ Len(o.ids) = 0 THEN [o EXCEPT !.err = msgWrongNumber]
        ELSE o

xreadgroupParse(args) ==
    LET o == xreadgroupOpts(Drop(args, 3),
                [NoOpts EXCEPT !.group = args[2].k, !.consumer = args[3].k])
    IN  IF Len(args) < 6 THEN [NoOpts EXCEPT !.err = msgWrongNumber]
        ELSE IF ~IsWord(args[1], "GROUP") THEN [NoOpts EXCEPT !.err = "ERR syntax error"]
        ELSE IF o.err # "" THEN o
        ELSE IF Len(o.streams) = 0 \/ Len(o.ids) = 0 THEN [o EXCEPT !.err = msgWrongNumber]
        ELSE IF \E i \in 1..Len(o.ids) : o.ids[i].k # ">" THEN [o EXCEPT !.block = FALSE]
        ELSE o

RECURSIVE xreadgroupFrom(_, _, _, _, _)
\* lines 511-532: the loop over the streams from index i on; sk is
\* db.streamKeys as the earlier iterations left it, res the result so far
xreadgroupFrom(i, o, t, sk, res) ==
    IF i > Len(o.streams) THEN [err |-> "", res |-> res, streamKeys |-> sk]
    ELSE LET key == o.streams[i]
             id == o.ids[i]
             found == dbStreamGroup(keys, sk, key, o.group)
             r == readGroup(sk[key].groups[o.group], sk[key].entries, t,
                            o.consumer, id, o.count, o.noack)
             sk2 == [sk EXCEPT ![key].groups[o.group] = r.g]
         IN  IF found.err # "" THEN [err |-> found.err, res |-> <<>>, streamKeys |-> sk]
             ELSE IF found.nil THEN [err |-> msgNoGroup, res |-> <<>>, streamKeys |-> sk]
             ELSE IF id.k # ">" /\ ~parseStreamID(id).ok
             THEN [err |-> msgInvalidEntryID, res |-> <<>>, streamKeys |-> sk]
             ELSE IF id.k = ">" /\ r.entries = <<>>
             THEN xreadgroupFrom(i + 1, o, t, sk2, res)
             ELSE xreadgroupFrom(i + 1, o, t, sk2, Put(res, key, r.entries))

\* mutant of xreadgroup: NOACK is not handed on to the group
xreadgroupIgnoreNoack(o, t) ==
    xreadgroupFrom(1, [o EXCEPT !.noack = FALSE], t, streamKeys, <<>>)

\* mutant of xreadgroup: every ID is read as ">"
xreadgroupAllNew(o, t) ==
    xreadgroupFrom(1, [o EXCEPT !.ids = [i \in 1..Len(o.ids) |-> Gt]], t, streamKeys, <<>>)

\* mutant of xreadgroup: what the reads did to the groups is not kept
xreadgroupForgets(o, t) ==
    [xreadgroupFrom(1, o, t, streamKeys, <<>>) EXCEPT !.streamKeys = streamKeys]

\* lines 500-533
xreadgroup(o, t) == xreadgroupFrom(1, o, t, streamKeys, <<>>)

\* lines 446-466: the read without BLOCK
xreadgroupNow(o) ==
    LET r == xreadgroup(o, now)
    IN  IF r.err # "" THEN Effect(<<WriteError(r.err)>>, keys, r.streamKeys, keyVersion)
        ELSE Effect(writeXread(o.streams, r.res), keys, r.streamKeys, keyVersion)

(***************************************************************************)
(* XACK (cmdXack).                                                         *)
(***************************************************************************)
\* mutant of xack: the reply counts the IDs given, not the rows removed
xackCountsArgs(args) ==
    LET key == args[1].k
        group == args[2].k
        ids == Drop(args, 2)
        found == dbStreamGroup(keys, streamKeys, key, group)
        r == ack(streamKeys[key].groups[group], ids)
    IN  IF Len(args) < 3 THEN Reply(<<WriteError(msgWrongNumber)>>)
        ELSE IF found.err # "" THEN Reply(<<WriteError(found.err)>>)
        ELSE IF found.nil THEN Reply(<<WriteInt(0)>>)
        ELSE IF r.err # "" THEN Reply(<<WriteError(r.err)>>)
        ELSE Effect(<<WriteInt(Len(ids))>>, keys,
                    [streamKeys EXCEPT ![key].groups[group] = r.g], keyVersion)

\* lines 536-564: args are key group id...
xack(args) ==
    LET key == args[1].k
        group == args[2].k
        ids == Drop(args, 2)
        found == dbStreamGroup(keys, streamKeys, key, group)
        r == ack(streamKeys[key].groups[group], ids)
    IN  IF Len(args) < 3 THEN Reply(<<WriteError(msgWrongNumber)>>)
        ELSE IF found.err # "" THEN Reply(<<WriteError(found.err)>>)
        ELSE IF found.nil THEN Reply(<<WriteInt(0)>>)
        ELSE IF r.err # "" THEN Reply(<<WriteError(r.err)>>)
        ELSE Effect(<<WriteInt(r.n)>>, keys,
                    [streamKeys EXCEPT ![key].groups[group] = r.g], keyVersion)

(***************************************************************************)
(* XREAD (cmdXread, xread).                                                *)
(***************************************************************************)
RECURSIVE xreadOpts(_, _)
\* lines 615-657: the option loop
xreadOpts(args, o) ==
    IF Len(args) = 0 THEN o
    ELSE IF IsWord(args[1], "COUNT")
    THEN IF Len(args) < 2 THEN [o EXCEPT !.err = msgWrongNumber]
         ELSE IF ~Atoi(args[2]).ok THEN [o EXCEPT !.err = "strconv.Atoi: invalid syntax"]
         ELSE xreadOpts(Drop(args, 2), [o EXCEPT !.count = Atoi(args[2]).n])
    ELSE IF IsWord(args[1], "BLOCK")
    THEN IF parseBlock(args).err # "" THEN [o EXCEPT !.err = parseBlock(args).err]
         ELSE xreadOpts(Drop(args, 2),
                [o EXCEPT !.block = TRUE, !.blockTimeout = parseBlock(args).timeout])
    ELSE IF IsWord(args[1], "STREAMS")
    THEN IF Len(Tail(args)) % 2 # 0
         THEN [o EXCEPT !.err = "ERR Unbalanced XREAD list of streams"]
         ELSE IF \E i \in (2 + (Len(args) - 1) \div 2)..Len(args) :
                    ~parseStreamID(args[i]).ok
         THEN [o EXCEPT !.err = msgInvalidStreamID]
         ELSE [o EXCEPT !.streams = Names(SubSeq(args, 2, 1 + (Len(args) - 1) \div 2)),
                        !.ids = Drop(args, 1 + (Len(args) - 1) \div 2)]
    ELSE [o EXCEPT !.err = "ERR incorrect argument"]

\* lines 599-663
xreadParse(args) ==
    IF Len(args) < 3 THEN [NoOpts EXCEPT !.err = msgWrongNumber]
    ELSE xreadOpts(args, NoOpts)

\* xreadOne without the count: every entry after id
xreadOneNoCount(sk, stream, id, count) ==
    LET entries == sk[stream].entries
    IN  IF stream \notin DOMAIN sk THEN <<>>
        ELSE Filter(entries, LAMBDA e : streamCmp(e.ID, parseStreamID(id).id) > 0)

\* lines 694-725: what one stream yields (nothing when the key holds no
\* stream or no entry follows id)
xreadOne(sk, stream, id, count) ==
    LET entries == sk[stream].entries
        after == Filter(entries, LAMBDA e : streamCmp(e.ID, parseStreamID(id).id) > 0)
    IN  IF stream \notin DOMAIN sk THEN <<>>
        ELSE IF Len(entries) = 0 THEN <<>>
        ELSE IF count < 0 THEN after
        ELSE Take(after, IF count = 0 THEN Len(entries) ELSE count)

RECURSIVE xreadFrom(_, _, _)
xreadFrom(i, o, res) ==
    IF i > Len(o.streams) THEN res
    ELSE LET got == xreadOne(streamKeys, o.streams[i], o.ids[i], o.count)
         IN  xreadFrom(i + 1, o, IF Len(got) > 0 THEN Put(res, o.streams[i], got) ELSE res)

\* lines 692-727
xread(o) == xreadFrom(1, o, <<>>)

(***************************************************************************)
(* XLEN (cmdXlen).                                                         *)
(***************************************************************************)
\* lines 117-146: args are key; the error of db.stream is written and the
\* handler goes on to the test of s
xlen(args) ==
    IF Len(args) # 1 THEN Reply(<<WriteError(msgWrongNumber)>>)
    ELSE LET key == args[1].k
             found == dbStream(key)
         IN  Reply((IF found.err # "" THEN <<WriteError(found.err)>> ELSE <<>>)
                   \o (IF found.nil THEN <<WriteInt(0)>>
                       ELSE <<WriteInt(Len(streamKeys[key].entries))>>))

(***************************************************************************)
(* XRANGE and XREVRANGE (makeCmdXrange).                                   *)
(***************************************************************************)
msgSyntaxError == "ERR syntax error"

\* math.MaxUint64, above every millisecond and sequence number in use
MaxUint64 == 1000000
Minus == Kw("-")
Plus == Kw("+")

\* formatRangeBound(token, isStart, isReversed) of section 4.1: "-" is the
\* lowest ID and "+" the highest; a bound without sequence number gets 0
\* where it is the lower end of the scan and the maximum where it is the
\* upper end; the first bound of a reverse scan is its upper end
formatStreamRangeBound(tok, start, reverse) ==
    IF tok.k = "-" THEN [ok |-> TRUE, id |-> ZeroID]
    ELSE IF tok.k = "+" THEN [ok |-> TRUE, id |-> ID(MaxUint64, MaxUint64)]
    ELSE IF tok.k = "id" THEN [ok |-> TRUE, id |-> IdOf(tok)]
    ELSE IF tok.k = "int" /\ tok.ms >= 0
    THEN [ok |-> TRUE,
          id |-> IF (~start /\ ~reverse) \/ (start /\ reverse)
                 THEN ID(tok.ms, MaxUint64) ELSE ID(tok.ms, 0)]
    ELSE [ok |-> FALSE, id |-> ZeroID]

\* the entries last first
reversedStreamEntries(entries) ==
    [i \in 1..Len(entries) |-> entries[Len(entries) + 1 - i]]

\* the scan with both ends of the range left out
xrangeScanExclusive(entries, start, end, count, reverse, returned) ==
    LET in == [i \in 1..Len(entries) |->
                    /\ streamCmp(entries[i].ID, start) = (IF reverse THEN -1 ELSE 1)
                    /\ streamCmp(entries[i].ID, end) = (IF reverse THEN 1 ELSE -1)]
    IN  Take(SelectIdx(entries, in, 1), count)

RECURSIVE xrangeScan(_, _, _, _, _, _)
\* lines 220-246: the loop over the entries in scan order, returned are the
\* entries collected so far
xrangeScan(entries, start, end, count, reverse, returned) ==
    IF entries = <<>> THEN returned
    ELSE IF Len(returned) = count THEN returned
    ELSE LET entry == Head(entries)
             next == Tail(entries)
         IN  IF ~reverse
             THEN IF streamCmp(entry.ID, end) = 1 THEN returned
                  ELSE IF streamCmp(entry.ID, start) = -1
                  THEN xrangeScan(next, start, end, count, reverse, returned)
                  ELSE xrangeScan(next, start, end, count, reverse,
                                  Append(returned, entry))
             ELSE IF streamCmp(entry.ID, end) = -1 THEN returned
                  ELSE IF streamCmp(entry.ID, start) = 1
                  THEN xrangeScan(next, start, end, count, reverse, returned)
                  ELSE xrangeScan(next, start, end, count, reverse,
                                  Append(returned, entry))

\* lines 248-262: the entries as they are written
writeXrange(returned) ==
    <<WriteLen(Len(returned))>>
        \o Concat([i \in 1..Len(returned) |-> writeEntry(returned[i])])

\* XREVRANGE that scans the entries first to last
xrangeForward(reverse, args) ==
    IF Len(args) < 3 THEN Reply(<<WriteError(msgWrongNumber)>>)
    ELSE IF Len(args) = 4 \/ Len(args) > 5 THEN Reply(<<WriteError(msgSyntaxError)>>)
    ELSE IF Len(args) = 5 /\ ~IsLowerWord(args[4], "count")
    THEN Reply(<<WriteError(msgSyntaxError)>>)
    ELSE LET key == args[1].k
             start == formatStreamRangeBound(args[2], TRUE, reverse)
             end == formatStreamRangeBound(args[3], FALSE, reverse)
             count == Atoi(IF Len(args) = 5 THEN args[5] ELSE Num(0))
         IN  IF ~start.ok \/ ~end.ok THEN Reply(<<WriteError(msgInvalidStreamID)>>)
             ELSE IF ~count.ok THEN Reply(<<WriteError(msgInvalidInt)>>)
             ELSE IF key \notin DOMAIN keys THEN Reply(<<WriteLen(0)>>)
             ELSE IF keys[key] # "stream" THEN Reply(<<WriteError(msgWrongType)>>)
             ELSE LET entries == streamKeys[key].entries
                      n == IF count.n = 0 THEN Len(entries) ELSE count.n
                  IN  Reply(writeXrange(xrangeScan(entries, start.id, end.id, n,
                                                   reverse, <<>>)))

\* lines 150-264: args are key start end [COUNT count]
xrange(reverse, args) ==
    IF Len(args) < 3 THEN Reply(<<WriteError(msgWrongNumber)>>)
    ELSE IF Len(args) = 4 \/ Len(args) > 5 THEN Reply(<<WriteError(msgSyntaxError)>>)
    ELSE IF Len(args) = 5 /\ ~IsLowerWord(args[4], "count")
    THEN Reply(<<WriteError(msgSyntaxError)>>)
    ELSE LET key == args[1].k
             start == formatStreamRangeBound(args[2], TRUE, reverse)
             end == formatStreamRangeBound(args[3], FALSE, reverse)
             count == Atoi(IF Len(args) = 5 THEN args[5] ELSE Num(0))
         IN  IF ~start.ok \/ ~end.ok THEN Reply(<<WriteError(msgInvalidStreamID)>>)
             ELSE IF ~count.ok THEN Reply(<<WriteError(msgInvalidInt)>>)
             ELSE IF key \notin DOMAIN keys THEN Reply(<<WriteLen(0)>>)
             ELSE IF keys[key] # "stream" THEN Reply(<<WriteError(msgWrongType)>>)
             ELSE LET entries == IF reverse
                                 THEN reversedStreamEntries(streamKeys[key].entries)
                                 ELSE streamKeys[key].entries
                      n == IF count.n = 0 THEN Len(entries) ELSE count.n
                  IN  Reply(writeXrange(xrangeScan(entries, start.id, end.id, n,
                                                   reverse, <<>>)))

(***************************************************************************)
(* XPENDING (cmdXpending, writeXpendingSummary, writeXpending).            *)
(***************************************************************************)
msgIdleUnsupported == "ERR IDLE is unsupported"
WriteNull == [t |-> "null"]
\* the consumer names as sort.Strings orders them
ByName == <<"alice", "bob">>

\* the summary that lists every consumer the group has seen
writeXpendingSummaryAllSeen(g) ==
    IF Len(g.pending) = 0
    THEN <<WriteLen(4), WriteInt(0), WriteNull, WriteNull, WriteLen(-1)>>
    ELSE LET ids == SelectIdx(ByName, [i \in 1..Len(ByName) |-> ByName[i] \in g.consumers], 1)
         IN  <<WriteLen(4), WriteInt(Len(g.pending)), WriteBulk(Tok(g.pending[1].id)),
               WriteBulk(Tok(g.pending[Len(g.pending)].id)), WriteLen(Len(ids))>>
             \o Concat([i \in 1..Len(ids) |->
                    <<WriteLen(2), WriteBulk(Kw(ids[i])),
                      WriteBulk(Num(pendingCount(g, ids[i])))>>])

\* lines 829-866: total, first and last pending ID, and the consumers with
\* pending rows, by name, each with its number of rows as a string
writeXpendingSummary(g) ==
    IF Len(g.pending) = 0
    THEN <<WriteLen(4), WriteInt(0), WriteNull, WriteNull, WriteLen(-1)>>
    ELSE LET ids == SelectIdx(ByName,
                        [i \in 1..Len(ByName) |->
                            /\ ByName[i] \in g.consumers
                            /\ pendingCount(g, ByName[i]) > 0], 1)
         IN  <<WriteLen(4), WriteInt(Len(g.pending)), WriteBulk(Tok(g.pending[1].id)),
               WriteBulk(Tok(g.pending[Len(g.pending)].id)), WriteLen(Len(ids))>>
             \o Concat([i \in 1..Len(ids) |->
                    <<WriteLen(2), WriteBulk(Kw(ids[i])),
                      WriteBulk(Num(pendingCount(g, ids[i])))>>])

RECURSIVE xpendingScan(_, _, _, _, _, _, _)
\* lines 892-912: the loop over the pending rows, res are the rows collected
\* so far; consumer is <<>> or <<name>>
xpendingScan(pending, t, start, end, count, consumer, res) ==
    IF pending = <<>> THEN res
    ELSE IF Len(res) >= count THEN res
    ELSE LET p == Head(pending)
             next == Tail(pending)
         IN  IF consumer # <<>> /\ p.consumer # consumer[1]
             THEN xpendingScan(next, t, start, end, count, consumer, res)
             ELSE IF streamCmp(p.id, start) < 0
             THEN xpendingScan(next, t, start, end, count, consumer, res)
             ELSE IF streamCmp(p.id, end) > 0
             THEN xpendingScan(next, t, start, end, count, consumer, res)
             ELSE xpendingScan(next, t, start, end, count, consumer,
                    Append(res, [id |-> p.id, consumer |-> p.consumer,
                                 millis |-> t - p.lastDelivery,
                                 count |-> p.deliveryCount]))

\* the detail query that takes no notice of the consumer given
writeXpendingAnyConsumer(t, g, start, end, count, consumer) ==
    IF Len(g.pending) = 0 \/ count < 0 THEN <<WriteLen(-1)>>
    ELSE LET res == xpendingScan(g.pending, t, start, end, count, <<>>, <<>>)
         IN  <<WriteLen(Len(res))>>
             \o Concat([i \in 1..Len(res) |->
                    <<WriteLen(4), WriteBulk(Tok(res[i].id)), WriteBulk(Kw(res[i].consumer)),
                      WriteInt(res[i].millis), WriteInt(res[i].count)>>])

\* lines 868-922
writeXpending(t, g, start, end, count, consumer) ==
    IF Len(g.pending) = 0 \/ count < 0 THEN <<WriteLen(-1)>>
    ELSE LET res == xpendingScan(g.pending, t, start, end, count, consumer, <<>>)
         IN  <<WriteLen(Len(res))>>
             \o Concat([i \in 1..Len(res) |->
                    <<WriteLen(4), WriteBulk(Tok(res[i].id)), WriteBulk(Kw(res[i].consumer)),
                      WriteInt(res[i].millis), WriteInt(res[i].count)>>])

\* lines 754-827: args are key group [start end count [consumer]]
xpending(args) ==
    IF Len(args) < 2 THEN Reply(<<WriteError(msgWrongNumber)>>)
    ELSE LET key == args[1].k
             group == args[2].k
             rest == Drop(args, 2)
             summary == Len(rest) < 3
             start == formatStreamRangeBound(rest[1], TRUE, FALSE)
             end == formatStreamRangeBound(rest[2], FALSE, FALSE)
             count == Atoi(rest[3])
             after == IF summary THEN rest ELSE Drop(rest, 3)
             consumer == IF ~summary /\ Len(after) = 1 THEN <<after[1].k>> ELSE <<>>
             left == IF ~summary /\ Len(after) = 1 THEN <<>> ELSE after
             found == dbStreamGroup(keys, streamKeys, key, group)
         IN  IF Len(rest) > 0 /\ IsWord(rest[1], "IDLE")
             THEN Reply(<<WriteError(msgIdleUnsupported)>>)
             ELSE IF ~summary /\ (~start.ok \/ ~end.ok)
             THEN Reply(<<WriteError(msgInvalidStreamID)>>)
             ELSE IF ~summary /\ ~count.ok THEN Reply(<<WriteError(msgInvalidInt)>>)
             ELSE IF left # <<>> THEN Reply(<<WriteError(msgSyntaxError)>>)
             ELSE IF found.err # "" THEN Reply(<<WriteError(found.err)>>)
             ELSE IF found.nil THEN Reply(<<WriteError(msgNoGroup)>>)
             ELSE IF summary
             THEN Reply(writeXpendingSummary(streamKeys[key].groups[group]))
             ELSE Reply(writeXpending(now, streamKeys[key].groups[group],
                                      start.id, end.id, count.n, consumer))

(***************************************************************************)
(* SET, SETEX, SETNX, MSET (part_000, commandsString) and Set.  Only the   *)
(* key's type tag is kept: the string values and the expire table are not  *)
(* part of the state.                                                      *)
(***************************************************************************)
\* db.del(key): the key and the value it holds are gone
dbDel(key) == Effect(<<>>, Del(keys, key), Del(streamKeys, key), keyVersion)

\* db.set(k, v), lines 40-43: the key is tagged a string key and nothing of
\* another type is removed
dbSet(ks, k) == Put(ks, k, "string")

RECURSIVE setFlags(_, _)
\* lines 58-85: the flags after the value, any case; o is what was read so far
setFlags(args, o) ==
    IF Len(args) = 0 THEN o
    ELSE IF IsWord(args[1], "NX") THEN setFlags(Tail(args), [o EXCEPT !.nx = TRUE])
    ELSE IF IsWord(args[1], "XX") THEN setFlags(Tail(args), [o EXCEPT !.xx = TRUE])
    ELSE IF IsWord(args[1], "EX") \/ IsWord(args[1], "PX")
    THEN IF Len(args) < 2 \/ ~Atoi(args[2]).ok
         THEN [o EXCEPT !.err = "Expire value error"]
         ELSE setFlags(Drop(args, 2), [o EXCEPT !.expire = Atoi(args[2]).n])
    ELSE [o EXCEPT !.err = "invalid SET flag"]

\* lines 47-113: SET key value [NX] [XX] [EX n] [PX n]
set(args) ==
    LET key == args[1].k
        o == setFlags(Drop(args, 2), [err |-> "", nx |-> FALSE, xx |-> FALSE, expire |-> 0])
        d == dbDel(key)
    IN  IF Len(args) < 2 THEN Reply(<<WriteError("Usage error")>>)
        ELSE IF o.err # "" THEN Reply(<<WriteError(o.err)>>)
        ELSE IF o.nx /\ key \in DOMAIN keys THEN Reply(<<WriteNil>>)
        ELSE IF o.xx /\ key \notin DOMAIN keys THEN Reply(<<WriteNil>>)
        ELSE Effect(<<WriteOK>>, dbSet(d.keys, key), d.streamKeys, d.keyVersion)

\* lines 115-138: SETEX key seconds value
setex(args) ==
    LET key == args[1].k
        d == dbDel(key)
    IN  IF Len(args) # 3 THEN Reply(<<WriteError("Usage error")>>)
        ELSE IF ~Atoi(args[2]).ok THEN Reply(<<WriteError("Expire value error")>>)
        ELSE Effect(<<WriteOK>>, Put(d.keys, key, "string"), d.streamKeys, d.keyVersion)

\* lines 140-160: SETNX key value
setnx(args) ==
    LET key == args[1].k
    IN  IF Len(args) # 2 THEN Reply(<<WriteError("Usage error")>>)
        ELSE IF key \in DOMAIN keys THEN Reply(<<WriteInt(0)>>)
        ELSE Effect(<<WriteInt(1)>>, dbSet(keys, key), streamKeys, keyVersion)

RECURSIVE msetFrom(_, _, _)
\* lines 171-180: the pairs left in args, on the keys ks and the streams sk
msetFrom(args, ks, sk) ==
    IF Len(args) = 0 THEN Effect(<<WriteOK>>, ks, sk, keyVersion)
    ELSE msetFrom(Drop(args, 2), Put(Del(ks, args[1].k), args[1].k, "string"),
                  Del(sk, args[1].k))

\* lines 162-183: MSET key value [key value ...]
mset(args) ==
    IF Len(args) % 2 # 0
    THEN Reply(<<WriteError("wrong number of arguments for 'mset' command")>>)
    ELSE msetFrom(args, keys, streamKeys)

(***************************************************************************)
(* Blocking reads (section 4.4).  A connection in a blocking read is       *)
(*   "eval"    holding the lock, about to run the predicate,               *)
(*   "waiting" suspended without the lock until a notification,            *)
(*   "done"    finished, out being all it replied, or                      *)
(*   "cancelled" left without a reply after its connection was closed.     *)
(* elapsed is the real time since the read began, timedOut is set by its   *)
(* timer, signalled by a notification, closed by the client closing the    *)
(* connection during the read.  The other fields are ghosts:               *)
(*   waited  the read has been suspended at least once,                    *)
(*   fed     a matching entry was appended during the read,                *)
(*   early   a matching entry was appended before the deadline,            *)
(*   lost    a requested key was destroyed during the read.                *)
(***************************************************************************)
Idle == [pc |-> "idle"]
Blocked(c) == conn[c].pc \in {"eval", "waiting"}

\* the entry id appended to key is one the read of connection c asks for
Matches(c, key, id) ==
    \E i \in 1..Len(conn[c].o.streams) :
        /\ conn[c].o.streams[i] = key
        /\ IF conn[c].cmd = "XREAD"
           THEN streamCmp(id, parseStreamID(conn[c].o.ids[i]).id) = 1
           ELSE /\ key \in DOMAIN streamKeys
                /\ conn[c].o.group \in DOMAIN streamKeys[key].groups
                /\ streamCmp(id, streamKeys[key].groups[conn[c].o.group].lastID) = 1

\* the connections after a command: a bumped key version notifies the reads
\* suspended on that key, and so does the destruction of the key; added are
\* the <<key, id>> appended, gone the keys destroyed
Notify(kv, added, gone) ==
    [c \in Clients |->
        IF ~Blocked(c) THEN conn[c]
        ELSE [conn[c] EXCEPT
                !.signalled = @ \/ \E k \in Range(conn[c].o.streams) :
                                        kv[k] # keyVersion[k] \/ k \in gone,
                !.fed = @ \/ \E a \in added : Matches(c, a[1], a[2]),
                !.early = @ \/ ((conn[c].o.blockTimeout = 0
                                    \/ conn[c].elapsed < conn[c].o.blockTimeout)
                                 /\ \E a \in added : Matches(c, a[1], a[2])),
                !.lost = @ \/ \E k \in gone : k \in Range(conn[c].o.streams)]]

\* withTx: a command runs to its end under the lock
Apply(e, added, gone) ==
    /\ lock = NoClient
    /\ keys' = e.keys
    /\ streamKeys' = e.streamKeys
    /\ keyVersion' = e.keyVersion
    /\ conn' = Notify(e.keyVersion, added, gone)
    /\ UNCHANGED lock

Did(cmd, args, out) == [cmd |-> cmd, args |-> args, out |-> out]

(***************************************************************************)
(* The commands as actions.                                                *)
(***************************************************************************)
cmdXadd(args) ==
    LET e == xadd(args)
        key == args[1].k
    IN  /\ Apply(e, IF IsBulk(e.out) THEN {<<key, IdOf(e.out[1].v)>>} ELSE {}, {})
        /\ last' = Did("XADD", args, e.out)
        /\ history' = IF IsBulk(e.out)
                       THEN [history EXCEPT ![key] =
                                Append(@, [id |-> IdOf(e.out[1].v), wild |-> IsWildcard(args)])]
                       ELSE history
        /\ UNCHANGED now

cmdXdel(args) ==
    LET e == xdel(args)
    IN  /\ Apply(e, {}, {})
        /\ last' = Did("XDEL", args, e.out)
        /\ UNCHANGED <<now, history>>

cmdXgroup(args) ==
    LET e == xgroup(args)
    IN  /\ Apply(e, {}, {})
        /\ last' = Did("XGROUP", args, e.out)
        /\ UNCHANGED <<now, history>>

cmdXack(args) ==
    LET e == xack(args)
    IN  /\ Apply(e, {}, {})
        /\ last' = Did("XACK", args, e.out)
        /\ UNCHANGED <<now, history>>

\* lines 360-466: XREADGROUP that does not block
cmdXreadgroup(args) ==
    LET o == xreadgroupParse(args)
        e == IF o.err # "" THEN Reply(<<WriteError(o.err)>>) ELSE xreadgroupNow(o)
    IN  /\ ~(o.err = "" /\ o.block)
        /\ Apply(e, {}, {})
        /\ last' = Did("XREADGROUP", args, e.out)
        /\ UNCHANGED <<now, history>>

\* lines 599-672: XREAD that does not block
cmdXread(args) ==
    LET o == xreadParse(args)
        e == IF o.err # "" THEN Reply(<<WriteError(o.err)>>)
             ELSE Reply(writeXread(o.streams, xread(o)))
    IN  /\ ~(o.err = "" /\ o.block)
        /\ Apply(e, {}, {})
        /\ last' = Did("XREAD", args, e.out)
        /\ UNCHANGED <<now, history>>

cmdXrange(reverse, args) ==
    LET e == xrange(reverse, args)
    IN  /\ Apply(e, {}, {})
        /\ last' = Did(IF reverse THEN "XREVRANGE" ELSE "XRANGE", args, e.out)
        /\ UNCHANGED <<now, history>>

cmdXpending(args) ==
    LET e == xpending(args)
    IN  /\ Apply(e, {}, {})
        /\ last' = Did("XPENDING", args, e.out)
        /\ UNCHANGED <<now, history>>

cmdXlen(args) ==
    LET e == xlen(args)
    IN  /\ Apply(e, {}, {})
        /\ last' = Did("XLEN", args, e.out)
        /\ UNCHANGED <<now, history>>

cmdSet(args) ==
    LET e == set(args)
        done == e.out = <<WriteOK>>
    IN  /\ Apply(e, {}, IF done THEN {args[1].k} ELSE {})
        /\ last' = Did("SET", args, e.out)
        /\ history' = IF done THEN [history EXCEPT ![args[1].k] = <<>>] ELSE history
        /\ UNCHANGED now

cmdSetex(args) ==
    LET e == setex(args)
        done == e.out = <<WriteOK>>
    IN  /\ Apply(e, {}, IF done THEN {args[1].k} ELSE {})
        /\ last' = Did("SETEX", args, e.out)
        /\ history' = IF done THEN [history EXCEPT ![args[1].k] = <<>>] ELSE history
        /\ UNCHANGED now

cmdSetnx(args) ==
    LET e == setnx(args)
    IN  /\ Apply(e, {}, {})
        /\ last' = Did("SETNX", args, e.out)
        /\ UNCHANGED <<now, history>>

cmdMset(args) ==
    LET e == mset(args)
        gone == IF e.out = <<WriteOK>>
                THEN {args[i].k : i \in {j \in 1..Len(args) : j % 2 = 1}} ELSE {}
    IN  /\ Apply(e, {}, gone)
        /\ last' = Did("MSET", args, e.out)
        /\ history' = [k \in DOMAIN history |-> IF k \in gone THEN <<>> ELSE history[k]]
        /\ UNCHANGED now

\* Miniredis.Set and redisDB.Set, lines 28-37: a test sets a string key under
\* the lock of the database; it gets no reply
Set(k, v) ==
    /\ Apply(Effect(<<>>, dbSet(keys, k), streamKeys, keyVersion), {}, {})
    /\ last' = Did("Set", <<Kw(k), v>>, <<>>)
    /\ UNCHANGED <<now, history>>

\* the virtual clock: a test sets it to any value, earlier ones included
SetTime(t) ==
    /\ now' = t
    /\ last' = Did("SetTime", <<Num(t)>>, <<>>)
    /\ UNCHANGED <<keys, streamKeys, keyVersion, lock, conn, history>>

\* lines 468-497 and 673-689: blocking(m, c, timeout, cb, onTimeout) begins;
\* it takes the lock and starts the timer
blocking(c, cmd, args) ==
    LET o == IF cmd = "XREAD" THEN xreadParse(args) ELSE xreadgroupParse(args)
    IN  /\ conn[c].pc \in {"idle", "done"}
        /\ o.err = "" /\ o.block
        /\ lock = NoClient
        /\ lock' = c
        /\ conn' = [conn EXCEPT ![c] =
                [pc |-> "eval", cmd |-> cmd, o |-> o, elapsed |-> 0,
                 timedOut |-> FALSE, signalled |-> FALSE, out |-> <<>>,
                 waited |-> FALSE, fed |-> FALSE, early |-> FALSE, lost |-> FALSE,
                 closed |-> FALSE]]
        /\ last' = Did("blocking", args, <<>>)
        /\ UNCHANGED <<keys, streamKeys, keyVersion, now, history>>

\* lines 472-493: the predicate of XREADGROUP: done, the reply, the streams
xreadgroupTry(o) ==
    With(xreadgroup(o, now), LAMBDA r :
        IF r.err # "" THEN [done |-> TRUE, out |-> <<WriteError(r.err)>>, streamKeys |-> r.streamKeys]
        ELSE IF DOMAIN r.res = {} THEN [done |-> FALSE, out |-> <<>>, streamKeys |-> r.streamKeys]
        ELSE [done |-> TRUE, out |-> writeXread(o.streams, r.res), streamKeys |-> r.streamKeys])

\* xreadTry without the test for an empty result: it never waits
xreadTryNoWait(o) ==
    [done |-> TRUE, out |-> writeXread(o.streams, xread(o)), streamKeys |-> streamKeys]

\* lines 677-685: the predicate of XREAD
xreadTry(o) ==
    With(xread(o), LAMBDA res :
        IF DOMAIN res = {} THEN [done |-> FALSE, out |-> <<>>, streamKeys |-> streamKeys]
        ELSE [done |-> TRUE, out |-> writeXread(o.streams, res), streamKeys |-> streamKeys])

\* lines 494-496 and 686-688: the timeout callback
onTimeout == <<WriteLen(-1)>>

\* Eval that keeps the lock across the wait
EvalKeepsLock(c) ==
    /\ conn[c].pc = "eval"
    /\ lock = c
    /\ \E r \in {IF conn[c].cmd = "XREAD" THEN xreadTry(conn[c].o)
                 ELSE xreadgroupTry(conn[c].o)} :
        /\ lock' = IF conn[c].closed \/ r.done \/ conn[c].timedOut THEN NoClient ELSE c
        /\ streamKeys' = IF conn[c].closed THEN streamKeys ELSE r.streamKeys
        /\ conn' = [conn EXCEPT ![c] =
                IF @.closed THEN [@ EXCEPT !.pc = "cancelled"]
                ELSE IF r.done THEN [@ EXCEPT !.pc = "done", !.out = r.out]
                ELSE IF @.timedOut THEN [@ EXCEPT !.pc = "done", !.out = onTimeout]
                ELSE [@ EXCEPT !.pc = "waiting", !.signalled = FALSE, !.waited = TRUE]]
    /\ last' = Did("Eval", <<Kw(c)>>, <<>>)
    /\ UNCHANGED <<keys, keyVersion, now, history>>

\* Eval that does not look at the connection before it runs the predicate
EvalIgnoresClose(c) ==
    /\ conn[c].pc = "eval"
    /\ lock = c
    /\ \E r \in {IF conn[c].cmd = "XREAD" THEN xreadTry(conn[c].o)
                 ELSE xreadgroupTry(conn[c].o)} :
        /\ lock' = NoClient
        /\ streamKeys' = r.streamKeys
        /\ conn' = [conn EXCEPT ![c] =
                IF r.done THEN [@ EXCEPT !.pc = "done", !.out = r.out]
                ELSE IF @.closed THEN [@ EXCEPT !.pc = "cancelled"]
                ELSE IF @.timedOut THEN [@ EXCEPT !.pc = "done", !.out = onTimeout]
                ELSE [@ EXCEPT !.pc = "waiting", !.signalled = FALSE, !.waited = TRUE]]
    /\ last' = Did("Eval", <<Kw(c)>>, <<>>)
    /\ UNCHANGED <<keys, keyVersion, now, history>>

\* one round of the loop of blocking: under the lock, leave without a reply
\* when the connection is closed, else run the predicate (r is its outcome);
\* reply when it is done, else reply null when the timer has fired, else
\* release the lock and wait
Eval(c) ==
    /\ conn[c].pc = "eval"
    /\ lock = c
    /\ \E r \in {IF conn[c].cmd = "XREAD" THEN xreadTry(conn[c].o)
                 ELSE xreadgroupTry(conn[c].o)} :
        /\ lock' = NoClient
        /\ streamKeys' = IF conn[c].closed THEN streamKeys ELSE r.streamKeys
        /\ conn' = [conn EXCEPT ![c] =
                IF @.closed THEN [@ EXCEPT !.pc = "cancelled"]
                ELSE IF r.done THEN [@ EXCEPT !.pc = "done", !.out = r.out]
                ELSE IF @.timedOut THEN [@ EXCEPT !.pc = "done", !.out = onTimeout]
                ELSE [@ EXCEPT !.pc = "waiting", !.signalled = FALSE, !.waited = TRUE]]
    /\ last' = Did("Eval", <<Kw(c)>>, <<>>)
    /\ UNCHANGED <<keys, keyVersion, now, history>>

\* a notified read takes the lock again
Wake(c) ==
    /\ conn[c].pc = "waiting"
    /\ conn[c].signalled
    /\ lock = NoClient
    /\ lock' = c
    /\ conn' = [conn EXCEPT ![c].pc = "eval"]
    /\ last' = Did("Wake", <<Kw(c)>>, <<>>)
    /\ UNCHANGED <<keys, streamKeys, keyVersion, now, history>>

\* the timer of a read runs while its deadline lies ahead
Running(c) ==
    Blocked(c) /\ conn[c].o.blockTimeout > 0 /\ conn[c].elapsed < conn[c].o.blockTimeout

\* a millisecond of real time passes
Tick ==
    /\ \E c \in Clients : Running(c)
    /\ conn' = [c \in Clients |->
            IF Running(c) THEN [conn[c] EXCEPT !.elapsed = @ + 1] ELSE conn[c]]
    /\ last' = Did("Tick", <<>>, <<>>)
    /\ UNCHANGED <<keys, streamKeys, keyVersion, now, lock, history>>

\* the timer of a read fires at its deadline (a timeout of 0 sets no timer)
TimerFire(c) ==
    /\ Blocked(c)
    /\ conn[c].o.blockTimeout > 0
    /\ conn[c].elapsed = conn[c].o.blockTimeout
    /\ ~conn[c].timedOut
    /\ conn' = [conn EXCEPT ![c].timedOut = TRUE, ![c].signalled = TRUE]
    /\ last' = Did("TimerFire", <<Kw(c)>>, <<>>)
    /\ UNCHANGED <<keys, streamKeys, keyVersion, now, lock, history>>

\* the client closes its connection during a blocked read: the context of
\* the connection is done and the read is notified
Cancel(c) ==
    /\ Blocked(c)
    /\ ~conn[c].closed
    /\ conn' = [conn EXCEPT ![c].closed = TRUE, ![c].signalled = TRUE]
    /\ last' = Did("Cancel", <<Kw(c)>>, <<>>)
    /\ UNCHANGED <<keys, streamKeys, keyVersion, now, lock, history>>

(***************************************************************************)
(* Initial state: an empty database, nobody connected.                     *)
(***************************************************************************)
Init ==
    /\ keys = <<>>
    /\ streamKeys = <<>>
    /\ keyVersion = [k \in Keys |-> 0]
    /\ now = 1
    /\ lock = NoClient
    /\ conn = [c \in Clients |-> Idle]
    /\ last = Did("", <<>>, <<>>)
    /\ history = [k \in Keys |-> <<>>]

(***************************************************************************)
(* The stream log alone: XADD, XDEL, SET and the clock on one key.         *)
(***************************************************************************)
LogKeys == {"s1"}
Field == Kw("f")
Value == Kw("v")
\* well-formed XADD commands: [MAXLEN [~] n] id field value
MaxlenArgs ==
    {<<>>, <<Kw("maxlen"), Num(0)>>, <<Kw("maxlen"), Num(1)>>,
     <<Kw("maxlen"), Kw("~"), Num(2)>>}
XaddGood(ks) ==
    {<<Kw(k)>> \o m \o <<i, Field, Value>> :
        k \in ks, m \in MaxlenArgs, i \in IDToks \cup {Star, Num(1)}}
\* XADD commands that are refused whatever the stream holds
XaddBad(ks) ==
    {<<Kw(k)>> \o a : k \in ks, a \in {
        <<Star, Field>>,
        <<Kw("maxlen"), Kw("x"), Star, Field, Value>>,
        <<Kw("maxlen"), Num(-1), Star, Field, Value>>,
        <<Kw("maxlen"), Kw("~"), Num(1)>>,
        <<Kw("maxlen"), Num(1), Star>>,
        <<Kw("maxlen"), Num(1), Star, Field>>,
        <<Malformed, Field, Value>>,
        <<Kw("maxlen"), Num(0), Malformed, Field, Value>>}}
XaddArgs(ks) == XaddGood(ks) \cup XaddBad(ks)
XdelArgs(ks) ==
    {<<Kw(k)>> \o i : k \in ks,
        i \in {<<>>} \cup {<<Tok(a)>> : a \in IDs}
              \cup {<<Tok(a), Tok(b)>> : a \in {ID(1, 0)}, b \in IDs}}
SetArgs(ks) ==
    {<<Kw(k), Value>> \o f : k \in ks, f \in {<<>>, <<Kw("NX")>>, <<Kw("XX")>>}}

\* the key of the command may still be written: its version counter is
\* below the bound
Below(args, max) == keyVersion[args[1].k] < max

NextLog ==
    \/ \E args \in XaddArgs(LogKeys) : Below(args, MaxVersion) /\ cmdXadd(args)
    \/ \E args \in XdelArgs(LogKeys) : Below(args, MaxVersion) /\ cmdXdel(args)
    \/ \E args \in SetArgs(LogKeys) : cmdSet(args)
    \/ \E t \in 0..MaxMs : SetTime(t)

SpecLog == Init /\ [][NextLog]_vars

(***************************************************************************)
(* One stream with its consumer group: XADD, XDEL, XGROUP CREATE,          *)
(* XREADGROUP without BLOCK, XACK and the clock.                           *)
(***************************************************************************)
XaddFew(ks) == {<<Kw(k), Star, Field, Value>> : k \in ks}
XdelOne(ks) == {<<Kw(k), Tok(a)>> : k \in ks, a \in IDs}
XgroupArgs(ks) ==
    {<<Kw("CREATE"), Kw(k), Kw(g)>> \o i : k \in ks, g \in Groups,
        i \in {<<Kw("$")>>, <<Num(0)>>, <<Malformed>>, <<Kw("$"), Kw("MKSTREAM")>>}}
XreadgroupArgs(ks) ==
    {<<Kw("GROUP"), Kw(g), Kw(c)>> \o opt \o <<Kw("STREAMS"), Kw(k), i>> :
        g \in Groups, c \in Consumers, k \in ks, i \in {Gt, Num(0)},
        opt \in {<<>>, <<Kw("NOACK")>>}}
      \cup {<<Kw("GROUP"), Kw(g), Kw("alice"), Kw("COUNT"), n, Kw("STREAMS"), Kw(k), Gt>> :
                g \in Groups, k \in ks, n \in {Num(1), Kw("x")}}
      \cup {<<Kw("GROUP"), Kw(g), Kw("alice"), Kw("STREAMS"), Kw(k), Malformed>> :
                g \in Groups, k \in ks}
XackArgs(ks) ==
    {<<Kw(k), Kw(g)>> \o i : k \in ks, g \in Groups,
        i \in {<<>>} \cup {<<Tok(a)>> : a \in IDs}
              \cup {<<Tok(ID(1, 0)), Tok(b)>> : b \in {ID(1, 0), ID(1, 1)}}}

NextGroup ==
    \/ \E args \in XaddFew(LogKeys) : Below(args, MaxGroupVersion) /\ cmdXadd(args)
    \/ \E args \in XdelOne(LogKeys) : Below(args, MaxGroupVersion) /\ cmdXdel(args)
    \/ \E args \in XgroupArgs(LogKeys) : cmdXgroup(args)
    \/ \E args \in XreadgroupArgs(LogKeys) : cmdXreadgroup(args)
    \/ \E args \in XackArgs(LogKeys) : cmdXack(args)
    \/ \E t \in 0..MaxMs : SetTime(t)

SpecGroup == Init /\ [][NextGroup]_vars

(***************************************************************************)
(* Blocking reads: two connections that read one stream with BLOCK, while  *)
(* commands append to it, delete from it, create its group or overwrite    *)
(* the key, and real time passes.                                          *)
(***************************************************************************)
\* XREAD [COUNT 1] BLOCK t STREAMS key 0, t being 0 (for ever) or MaxBlock
XreadBlockArgs(ks) ==
    {c \o <<Kw("BLOCK"), Num(t), Kw("STREAMS"), Kw(k), i>> :
        c \in {<<>>, <<Kw("COUNT"), Num(1)>>}, t \in {0, MaxBlock}, k \in ks, i \in {Num(0)}}
\* XREADGROUP GROUP g alice BLOCK MaxBlock STREAMS key >
XreadgroupBlockArgs(ks) ==
    {<<Kw("GROUP"), Kw(g), Kw("alice"), Kw("BLOCK"), Num(t), Kw("STREAMS"), Kw(k), Gt>> :
        g \in Groups, t \in {MaxBlock}, k \in ks}
XaddBlockArgs(ks) ==
    {<<Kw(k)>> \o m \o <<Star, Field, Value>> :
        k \in ks, m \in {<<>>, <<Kw("maxlen"), Num(0)>>}}
XdelBlockArgs(ks) == {<<Kw(k), Tok(ID(1, 0))>> : k \in ks}
XgroupBlockArgs(ks) ==
    {<<Kw("CREATE"), Kw(k), Kw(g), Kw("$"), Kw("MKSTREAM")>> : k \in ks, g \in Groups}
SetBlockArgs(ks) == {<<Kw(k), Value>> : k \in ks}
\* the connection has not read yet: each connection reads once
Fresh(c) == conn[c].pc = "idle"

NextBlock ==
    \/ \E args \in XreadBlockArgs(LogKeys) : Fresh("c1") /\ blocking("c1", "XREAD", args)
    \/ \E args \in XreadgroupBlockArgs(LogKeys) :
            Fresh("c2") /\ blocking("c2", "XREADGROUP", args)
    \/ \E c \in Clients : Eval(c)
    \/ \E c \in Clients : Wake(c)
    \/ \E c \in Clients : TimerFire(c)
    \/ Tick
    \/ \E args \in XaddBlockArgs(LogKeys) : Below(args, MaxGroupVersion) /\ cmdXadd(args)
    \/ \E args \in XdelBlockArgs(LogKeys) : Below(args, MaxGroupVersion) /\ cmdXdel(args)
    \/ \E args \in XgroupBlockArgs(LogKeys) : cmdXgroup(args)
    \/ \E args \in SetBlockArgs(LogKeys) : cmdSet(args)

SpecBlock == Init /\ [][NextBlock]_vars

\* the timers run, a read that holds the lock evaluates its predicate, and a
\* notified read gets the lock in the end (the mutex does not starve it)
BlockFairness ==
    /\ WF_vars(Tick)
    /\ \A c \in Clients : WF_vars(TimerFire(c)) /\ WF_vars(Eval(c)) /\ SF_vars(Wake(c))

SpecBlockFair == SpecBlock /\ BlockFairness

(***************************************************************************)
(* SpecRange: range scans of one stream that XADD, XDEL and SET change.    *)
(***************************************************************************)
RangeIDs == {ID(1, 0), ID(1, 1), ID(2, 0)}
XaddRangeArgs(ks) == {<<Kw(k), Tok(a), Field, Value>> : k \in ks, a \in RangeIDs}
XdelRangeArgs(ks) == {<<Kw(k), Tok(a)>> : k \in ks, a \in RangeIDs}
RangeBounds == {Minus, Plus, Num(1), Tok(ID(1, 1)), Tok(ID(2, 0))}
RangeCounts == {<<>>, <<Kw("COUNT"), Num(0)>>, <<Kw("COUNT"), Num(1)>>,
                <<Kw("COUNT"), Num(2)>>}
XrangeArgs(ks) ==
    {<<Kw(k), a, b>> \o n : k \in ks, a \in RangeBounds, b \in RangeBounds,
        n \in RangeCounts}
      \cup {<<Kw(k), Minus>> \o r : k \in ks,
                r \in {<<>>, <<Malformed>>, <<Plus, Kw("COUNT")>>,
                       <<Plus, Kw("LIMIT"), Num(1)>>, <<Plus, Kw("COUNT"), Kw("x")>>,
                       <<Plus, Kw("COUNT"), Num(-1)>>}}
      \cup {<<Kw(k), Malformed, Plus>> : k \in ks}

NextRange ==
    \/ \E args \in XaddRangeArgs(LogKeys) : Below(args, MaxVersion) /\ cmdXadd(args)
    \/ \E args \in XdelRangeArgs(LogKeys) : Below(args, MaxVersion) /\ cmdXdel(args)
    \/ \E args \in {<<Kw(k), Value>> : k \in LogKeys} : cmdSet(args)
    \/ \E args \in XrangeArgs(LogKeys) : cmdXrange(FALSE, args)
    \/ \E args \in XrangeArgs(LogKeys) : cmdXrange(TRUE, args)

SpecRange == Init /\ [][NextRange]_vars

(***************************************************************************)
(* SpecPending: the pending rows of one group as XPENDING shows them,      *)
(* under XADD, XDEL, XGROUP CREATE, XREADGROUP, XACK and the clock.        *)
(***************************************************************************)
XgroupPendingArgs(ks) ==
    {<<Kw("CREATE"), Kw(k), Kw(g)>> \o i : k \in ks, g \in Groups,
        i \in {<<Num(0), Kw("MKSTREAM")>>, <<Malformed, Kw("MKSTREAM")>>, <<Kw("$")>>,
               <<Malformed>>}}
XreadgroupPendingArgs(ks) ==
    {<<Kw("GROUP"), Kw(g), Kw(c)>> \o n \o <<Kw("STREAMS"), Kw(k), i>> :
        g \in Groups, c \in Consumers, k \in ks, i \in {Gt, Num(0)},
        n \in {<<>>, <<Kw("COUNT"), Num(1)>>}}
      \cup {<<Kw("GROUP"), Kw(g), Kw("alice"), Kw("STREAMS"), Kw(k), Tok(ID(1, 0))>> :
                g \in Groups, k \in ks}
XdelPendingArgs(ks) ==
    XdelRangeArgs(ks) \cup {<<Kw(k), Tok(ID(1, 0)), Tok(a)>> : k \in ks, a \in {ID(1, 0), ID(1, 1)}}
XackPendingArgs(ks) == {<<Kw(k), Kw(g), Tok(a)>> : k \in ks, g \in Groups, a \in RangeIDs}
PendingRanges == {<<Minus, Plus>>, <<Num(1), Num(1)>>, <<Tok(ID(1, 1)), Plus>>}
PendingCounts == {Num(-1), Num(0), Num(1), Num(5)}
XpendingArgs(ks) ==
    {<<Kw(k), Kw(g)>> : k \in ks, g \in Groups}
      \cup {<<Kw(k), Kw(g)>> \o r \o <<n>> \o c : k \in ks, g \in Groups,
                r \in PendingRanges, n \in PendingCounts,
                c \in {<<>>, <<Kw("alice")>>}}
      \cup {<<Kw(k), Kw(g)>> \o r : k \in ks, g \in Groups,
                r \in {<<Kw("IDLE"), Num(1)>>, <<Minus>>, <<Malformed, Plus, Num(1)>>,
                       <<Minus, Malformed, Num(1)>>, <<Minus, Plus, Kw("x")>>,
                       <<Minus, Plus, Num(1), Kw("alice"), Kw("bob")>>}}
      \cup {<<Kw(k)>> : k \in ks}

NextPending ==
    \/ \E args \in XaddFew(LogKeys) : Below(args, MaxGroupVersion) /\ cmdXadd(args)
    \/ \E args \in XdelPendingArgs(LogKeys) : Below(args, MaxVersion) /\ cmdXdel(args)
    \/ \E args \in XgroupPendingArgs(LogKeys) : cmdXgroup(args)
    \/ \E args \in XreadgroupPendingArgs(LogKeys) : cmdXreadgroup(args)
    \/ \E args \in XackPendingArgs(LogKeys) : cmdXack(args)
    \/ \E args \in XpendingArgs(LogKeys) : cmdXpending(args)
    \/ \E t \in 1..MaxMs : SetTime(t)

SpecPending == Init /\ [][NextPending]_vars

(***************************************************************************)
(* SpecMulti: group reads that name two streams, with XADD, XGROUP CREATE  *)
(* and XACK on either.                                                     *)
(***************************************************************************)
MultiIDs == {ID(1, 0), ID(1, 1)}
XreadgroupMultiArgs ==
    {<<Kw("GROUP"), Kw(g), Kw("alice")>> \o n \o <<Kw("STREAMS"), Kw(ab[1]), Kw(ab[2]), i, j>> :
        g \in Groups, ab \in {p \in Keys \X Keys : p[1] # p[2]},
        i \in {Gt, Num(0)}, j \in {Gt, Num(0)},
        n \in {<<>>, <<Kw("COUNT"), Num(1)>>}}
      \cup {<<Kw("GROUP"), Kw(g), Kw("alice"), Kw("STREAMS"), Kw(a), i>> :
                g \in Groups, a \in Keys, i \in {Gt, Num(0), Tok(ID(1, 0))}}
      \cup {<<Kw("GROUP"), Kw(g), Kw("alice"), Kw("STREAMS"), Kw("s1"), Kw("s2"), Gt, Malformed>> :
                g \in Groups}
      \cup {<<Kw("group"), Kw(g), Kw("alice"), Kw("count"), Num(1), Kw("Streams"), Kw("s1"), Gt>> :
                g \in Groups}
XackMultiArgs ==
    {<<Kw(k), Kw(g), Tok(a)>> : k \in Keys, g \in Groups, a \in MultiIDs}
      \cup {<<Kw("s1"), Kw(g), Tok(ID(1, 0)), Malformed>> : g \in Groups}
XgroupMultiArgs ==
    XgroupPendingArgs(Keys)
      \cup {<<Kw("create"), Kw("s2"), Kw(g), Num(0), Kw("mkstream")>> : g \in Groups}

NextMulti ==
    \/ \E args \in XaddFew(Keys) : Below(args, MaxGroupVersion) /\ cmdXadd(args)
    \/ \E args \in XgroupMultiArgs : cmdXgroup(args)
    \/ \E args \in XreadgroupMultiArgs : cmdXreadgroup(args)
    \/ \E args \in XackMultiArgs : cmdXack(args)

SpecMulti == Init /\ [][NextMulti]_vars

(***************************************************************************)
(* SpecDeliver: two consumers of one group that read new entries with and  *)
(* without BLOCK, while XADD, XDEL and XACK go on.                         *)
(***************************************************************************)
\* the consumer that reads on a connection
ConsumerOf(c) == IF c = "c1" THEN "alice" ELSE "bob"
XreadgroupDeliverBlockArgs(c, ks) ==
    {<<Kw("GROUP"), Kw(g), Kw(ConsumerOf(c)), Kw("BLOCK"), Num(0), Kw("STREAMS"), Kw(k), Gt>> :
        g \in Groups, k \in ks}
XreadgroupDeliverArgs(ks) ==
    {<<Kw("GROUP"), Kw(g), Kw(c)>> \o n \o <<Kw("STREAMS"), Kw(k), Gt>> :
        g \in Groups, c \in Consumers, k \in ks,
        n \in {<<>>, <<Kw("COUNT"), Num(1)>>, <<Kw("NOACK")>>}}
XgroupDeliverArgs(ks) ==
    {<<Kw("CREATE"), Kw(k), Kw(g), i, Kw("MKSTREAM")>> :
        k \in ks, g \in Groups, i \in {Kw("$"), Num(0)}}

NextDeliver ==
    \/ \E c \in Clients : \E args \in XreadgroupDeliverBlockArgs(c, LogKeys) :
            Fresh(c) /\ blocking(c, "XREADGROUP", args)
    \/ \E c \in Clients : Eval(c)
    \/ \E c \in Clients : Wake(c)
    \/ \E args \in XreadgroupDeliverArgs(LogKeys) : cmdXreadgroup(args)
    \/ \E args \in XaddFew(LogKeys) : Below(args, MaxVersion) /\ cmdXadd(args)
    \/ \E args \in XdelRangeArgs(LogKeys) : Below(args, MaxVersion) /\ cmdXdel(args)
    \/ \E args \in XackPendingArgs(LogKeys) : cmdXack(args)
    \/ \E args \in XgroupDeliverArgs(LogKeys) : cmdXgroup(args)

SpecDeliver == Init /\ [][NextDeliver]_vars

(***************************************************************************)
(* SpecLen: the length of one stream that XADD and XDEL change, on a key    *)
(* that SET, SETEX, SETNX, MSET and a test's call of Set turn into a       *)
(* string key.                                                             *)
(***************************************************************************)
XlenArgs(ks) == {<<Kw(k)>> : k \in ks} \cup {<<>>} \cup {<<Kw(k), Kw(k)>> : k \in ks}
XaddLenArgs(ks) ==
    XaddRangeArgs(ks) \cup {<<Kw(k), Kw("MAXLEN"), Num(1), Star, Field, Value>> : k \in ks}
XdelLenArgs(ks) == XdelRangeArgs(ks) \cup {<<Kw(k), Tok(ID(1, 0)), Malformed>> : k \in ks}
SetLenArgs(ks) ==
    SetArgs(ks)
      \cup {<<Kw(k), Value>> \o f : k \in ks,
                f \in {<<Kw("nx")>>, <<Kw("EX"), Num(10)>>, <<Kw("px"), Num(10), Kw("XX")>>,
                       <<Kw("EX")>>, <<Kw("EX"), Kw("x")>>, <<Kw("KEEPTTL")>>}}
      \cup {<<Kw(k)>> : k \in ks}
SetexArgs(ks) ==
    {<<Kw(k), n, Value>> : k \in ks, n \in {Num(10), Kw("x")}} \cup {<<Kw(k), Value>> : k \in ks}
SetnxArgs(ks) == {<<Kw(k), Value>> : k \in ks} \cup {<<Kw(k)>> : k \in ks}
MsetArgs(ks) ==
    {<<Kw(k), Value>> : k \in ks} \cup {<<Kw(k)>> : k \in ks}
      \cup {<<Kw(k), Value, Kw(k), Field>> : k \in ks}

NextLen ==
    \/ \E args \in XaddLenArgs(LogKeys) : Below(args, MaxVersion) /\ cmdXadd(args)
    \/ \E args \in XdelLenArgs(LogKeys) : Below(args, MaxVersion) /\ cmdXdel(args)
    \/ \E args \in SetLenArgs(LogKeys) : cmdSet(args)
    \/ \E args \in SetexArgs(LogKeys) : cmdSetex(args)
    \/ \E args \in SetnxArgs(LogKeys) : cmdSetnx(args)
    \/ \E args \in MsetArgs(LogKeys) : cmdMset(args)
    \/ \E k \in LogKeys : Set(k, Value)
    \/ \E args \in XlenArgs(LogKeys) : cmdXlen(args)

SpecLen == Init /\ [][NextLen]_vars

(***************************************************************************)
(* SpecWait: XREADGROUP with BLOCK over one or two streams, each asked for *)
(* new entries (>) or for the consumer's pending ones (a concrete ID).     *)
(* cmdXreadgroup either runs the read at once (lines 446-466) or hands it  *)
(* to blocking (lines 468-497).                                            *)
(***************************************************************************)
XreadgroupWaitArgs ==
    {<<Kw("GROUP"), Kw(g), Kw("alice"), Kw("BLOCK"), Num(MaxBlock), Kw("STREAMS"), Kw("s1"), i>> :
        g \in Groups, i \in {Gt, Num(0), Tok(ID(1, 0))}}
      \cup {<<Kw("GROUP"), Kw(g), Kw("alice"), Kw("BLOCK"), Num(MaxBlock), Kw("STREAMS"),
              Kw("s1"), Kw("s2"), i, j>> :
                g \in Groups, i \in {Gt, Num(0)}, j \in {Gt, Num(0)}}

NextWait ==
    \/ \E args \in XreadgroupWaitArgs : Fresh("c1") /\ blocking("c1", "XREADGROUP", args)
    \/ \E args \in XreadgroupWaitArgs : cmdXreadgroup(args)
    \/ \E c \in Clients : Eval(c)
    \/ \E c \in Clients : Wake(c)
    \/ \E c \in Clients : TimerFire(c)
    \/ Tick
    \/ \E args \in XaddFew(Keys) : Below(args, MaxGroupVersion) /\ cmdXadd(args)
    \/ \E args \in XgroupDeliverArgs(Keys) : cmdXgroup(args)

SpecWait == Init /\ [][NextWait]_vars

(***************************************************************************)
(* SpecCancel: the blocked reads of SpecBlock on connections that the      *)
(* client may close at any moment of the read.                             *)
(***************************************************************************)
NextCancel ==
    \/ NextBlock
    \/ \E c \in Clients : Cancel(c)

SpecCancel == Init /\ [][NextCancel]_vars

(***************************************************************************)
(* Properties of the stream log.                                           *)
(***************************************************************************)
Increasing(ids) == \A i, j \in 1..Len(ids) : i < j => streamCmp(ids[j], ids[i]) = 1
EntryIDs(entries) == [i \in 1..Len(entries) |-> entries[i].ID]
HistoryIDs(k) == [i \in 1..Len(history[k]) |-> history[k][i].id]
\* the entries of the stream at key k, none when k holds no stream
EntriesAt(sk, k) == IF k \in DOMAIN sk THEN sk[k].entries ELSE <<>>
\* the greatest ID the stream at k ever accepted, 0-0 when it accepted none
TopID(k) == IF history[k] = <<>> THEN ZeroID ELSE history[k][Len(history[k])].id

\* C1: every ID returned by a wildcard XADD is strictly greater than every ID
\* an earlier XADD on that stream returned, whatever the clock did in between.
C1_WildcardIncreasing ==
    \A k \in Keys : \A i, j \in 1..Len(history[k]) :
        (i < j /\ history[k][j].wild) =>
            streamCmp(history[k][j].id, history[k][i].id) = 1

\* a wildcard XADD answered an ID whose millis are ahead of the clock, after
\* an earlier wildcard XADD: the clock stood still or moved backwards
C1_Witness ==
    /\ last.cmd = "XADD" /\ IsWildcard(last.args) /\ IsBulk(last.out)
    /\ last.out[1].v.ms > now
    /\ \E i \in 1..(Len(history[last.args[1].k]) - 1) : history[last.args[1].k][i].wild

\* C2: an XADD with a well-formed explicit ID on a key that holds a stream or
\* nothing replies with the invalid-stream-ID error when the ID is not
\* strictly greater than the stream's top ID, and with that ID otherwise.
C2_ExplicitID ==
    [][(last'.cmd = "XADD" /\ IsExplicit(last'.args)
            /\ dbStream(last'.args[1].k).err = "") =>
        LET id == parseStreamID(xaddParse(Tail(last'.args)).entryID).id
        IN  IF streamCmp(id, TopID(last'.args[1].k)) = 1
            THEN last'.out = <<WriteBulk(Tok(id))>>
            ELSE last'.out = <<WriteError(msgInvalidStreamID)>>]_vars

\* an explicit ID was refused on a stream that had accepted an ID before
C2_Witness ==
    /\ last.cmd = "XADD" /\ IsExplicit(last.args)
    /\ last.out = <<WriteError(msgInvalidStreamID)>>
    /\ history[last.args[1].k] # <<>>

\* C3: the entries of every stream are strictly ascending by ID, they are
\* among the IDs the stream accepted, and each accepted ID is strictly greater
\* than all IDs accepted before it, trimmed and deleted ones included.
C3_SortedNoReuse ==
    \A k \in DOMAIN streamKeys :
        /\ Increasing(EntryIDs(streamKeys[k].entries))
        /\ Range(EntryIDs(streamKeys[k].entries)) \subseteq Range(HistoryIDs(k))
        /\ Increasing(HistoryIDs(k))

\* an XADD without MAXLEN succeeded on a stream that had lost an entry to
\* XDEL or to trimming
C3_Witness ==
    /\ last.cmd = "XADD" /\ IsBulk(last.out) /\ xaddParse(Tail(last.args)).maxlen = -1
    /\ \E i \in 1..Len(history[last.args[1].k]) :
          history[last.args[1].k][i].id
              \notin Range(EntryIDs(streamKeys[last.args[1].k].entries))

\* C6: an XADD that replies with an error leaves the database as it was:
\* same keys, same streams, same key versions.
C6_ErrorLeavesUnchanged ==
    [][(last'.cmd = "XADD" /\ IsError(last'.out)) =>
        (keys' = keys /\ streamKeys' = streamKeys /\ keyVersion' = keyVersion)]_vars

\* C7: a successful XADD with MAXLEN n leaves the min(n, k) entries with the
\* highest IDs of the k entries held just after the append; one without
\* MAXLEN leaves all k.
C7_Maxlen ==
    [][(last'.cmd = "XADD" /\ IsBulk(last'.out)) =>
        LET key == last'.args[1].k
            p == xaddParse(Tail(last'.args))
            all == Append(EntriesAt(streamKeys, key),
                          [ID |-> IdOf(last'.out[1].v), Values |-> p.values])
            k == Len(all)
            post == EntriesAt(streamKeys', key)
            m == IF p.maxlen >= 0 THEN Min(p.maxlen, k) ELSE k
        IN  /\ Len(post) = m
            /\ post = SubSeq(all, k - m + 1, k)
            /\ \A i \in 1..(k - m) : \A j \in 1..m :
                    streamCmp(post[j].ID, all[i].ID) = 1]_vars

\* an XADD with MAXLEN 1 succeeded on a stream that held an entry already
C7_Witness ==
    /\ last.cmd = "XADD" /\ IsBulk(last.out) /\ xaddParse(Tail(last.args)).maxlen = 1
    /\ Len(history[last.args[1].k]) >= 2
    /\ Len(streamKeys[last.args[1].k].entries) = 1
    /\ history[last.args[1].k][Len(history[last.args[1].k]) - 1].id
          \notin Range(EntryIDs(streamKeys[last.args[1].k].entries))

(***************************************************************************)
(* Properties of consumer groups.                                          *)
(***************************************************************************)
HasGroup(sk, key, group) == key \in DOMAIN sk /\ group \in DOMAIN sk[key].groups
PendingIDs(g) == [i \in 1..Len(g.pending) |-> g.pending[i].id]

\* the command is XREADGROUP GROUP g c [NOACK] STREAMS key > (no COUNT, no
\* BLOCK) on a key where the group exists
IsNewRead(args) ==
    LET o == xreadgroupParse(args)
    IN  /\ o.err = "" /\ ~o.block /\ o.count = 0
        /\ Len(o.streams) = 1 /\ o.ids[1].k = ">"
        /\ HasGroup(streamKeys, o.streams[1], o.group)

\* C4: XREADGROUP ">" without COUNT on a group with cursor X replies exactly
\* the M entries with ID greater than X in ascending order (null when M = 0),
\* moves the cursor to the last of them, and appends M pending rows of the
\* calling consumer with delivery count 1 and last delivery now; with NOACK
\* the reply and the cursor are the same and no pending row is added.
C4_ReadNew ==
    [][(last'.cmd = "XREADGROUP" /\ IsNewRead(last'.args)) =>
        LET o == xreadgroupParse(last'.args)
            key == o.streams[1]
            g == streamKeys[key].groups[o.group]
            post == streamKeys'[key].groups[o.group]
            new == Filter(streamKeys[key].entries, LAMBDA e : streamCmp(e.ID, g.lastID) = 1)
            M == Len(new)
        IN  /\ Increasing(EntryIDs(new))
            /\ last'.out = IF M = 0 THEN <<NullReply>>
                           ELSE <<WriteLen(1), WriteLen(2), WriteBulk(Kw(key)), WriteLen(M)>>
                                \o Concat([i \in 1..M |-> writeEntry(new[i])])
            /\ post.lastID = IF M = 0 THEN g.lastID ELSE new[M].ID
            /\ Len(post.pending) = Len(g.pending) + (IF o.noack THEN 0 ELSE M)
            /\ SubSeq(post.pending, 1, Len(g.pending)) = g.pending
            /\ ~o.noack => \A i \in 1..M :
                    post.pending[Len(g.pending) + i] =
                        [id |-> new[i].ID, consumer |-> o.consumer,
                         lastDelivery |-> now, deliveryCount |-> 1]]_vars

\* a read of new entries delivered two entries and made two pending rows
C4_Witness ==
    /\ last.cmd = "XREADGROUP" /\ xreadgroupParse(last.args).err = ""
    /\ xreadgroupParse(last.args).ids[1].k = ">"
    /\ xreadgroupParse(last.args).count = 0 /\ ~xreadgroupParse(last.args).noack
    /\ Len(last.out) >= 4 /\ last.out[4] = WriteLen(2)
    /\ \E key \in DOMAIN streamKeys : \E group \in DOMAIN streamKeys[key].groups :
          Len(streamKeys[key].groups[group].pending) >= 2

\* the command is XACK key group id... on a key where the group exists
IsAck(args) == Len(args) >= 3 /\ HasGroup(streamKeys, args[1].k, args[2].k)
AckIDs(args) == {parseStreamID(args[i]).id : i \in 3..Len(args)}

\* C5: XACK removes exactly the pending rows whose ID is among the given
\* IDs, whoever owns them, keeps the other rows, the cursor and the entries,
\* and replies the number of rows removed; the same XACK again replies 0
\* and changes nothing.
C5_AckStep ==
    (last'.cmd = "XACK" /\ IsAck(last'.args)) =>
        LET key == last'.args[1].k
            g == streamKeys[key].groups[last'.args[2].k]
            post == streamKeys'[key].groups[last'.args[2].k]
            ids == AckIDs(last'.args)
            gone == {i \in 1..Len(g.pending) : g.pending[i].id \in ids}
        IN  /\ post.pending = SelectIdx(g.pending,
                                  [i \in 1..Len(g.pending) |-> i \notin gone], 1)
            /\ post.lastID = g.lastID
            /\ streamKeys'[key].entries = streamKeys[key].entries
            /\ keys' = keys /\ keyVersion' = keyVersion
            /\ last'.out = <<WriteInt(Cardinality(gone))>>
C5_AckAgain ==
    (last.cmd = "XACK" /\ IsAck(last.args)) =>
        /\ xack(last.args).out = <<WriteInt(0)>>
        /\ xack(last.args).streamKeys = streamKeys
C5_Ack == [][C5_AckStep /\ C5_AckAgain']_vars

\* an XACK with two IDs removed one row and left a row pending
C5_Witness ==
    /\ last.cmd = "XACK" /\ IsAck(last.args) /\ Len(last.args) = 4
    /\ last.out = <<WriteInt(1)>>
    /\ Len(streamKeys[last.args[1].k].groups[last.args[2].k].pending) >= 1

(***************************************************************************)
(* Properties of the blocking reads.                                       *)
(***************************************************************************)
Waiting(c) == conn[c].pc = "waiting"
Done(c) == conn[c].pc = "done"
Deadline(c) == conn[c].o.blockTimeout
\* the IDs of the entries a reply carries, in the order of the reply
BulkIDs(out) ==
    LET w == Filter(out, LAMBDA x : x.t = "bulk" /\ x.v.k = "id")
    IN  [j \in 1..Len(w) |-> IdOf(w[j].v)]

\* C8 as stated: a read with BLOCK T > 0 that was suspended and whose streams
\* received no matching entry replied the null reply, and T had elapsed.
C8_NullAtTimeout ==
    \A c \in Clients :
        (Done(c) /\ Deadline(c) > 0 /\ conn[c].waited /\ ~conn[c].fed) =>
            (conn[c].out = <<NullReply>> /\ conn[c].elapsed = Deadline(c))

\* a finished read: without a matching entry, and with its keys kept, it
\* replied null and nothing else; whenever it replied null, T > 0 had elapsed
C8_Safe ==
    \A c \in Clients : Done(c) =>
        /\ (Deadline(c) > 0 /\ conn[c].waited /\ ~conn[c].fed /\ ~conn[c].lost) =>
                (conn[c].out = <<NullReply>> /\ conn[c].elapsed = Deadline(c))
        /\ conn[c].out = <<NullReply>> =>
                (Deadline(c) > 0 /\ conn[c].elapsed = Deadline(c) /\ conn[c].timedOut)
\* C8 (amended): a blocking read with BLOCK T > 0 that is suspended, whose
\* streams receive no matching entry and whose keys are not overwritten
\* during the wait, replies the null reply and nothing else; a null reply is
\* never written before T has elapsed; and every suspended read with T > 0
\* replies in the end.
C8_Timeout ==
    /\ []C8_Safe
    /\ \A c \in Clients : (Waiting(c) /\ Deadline(c) > 0) ~> Done(c)

\* a suspended read that was fed nothing replied null at its deadline
C8_Witness ==
    \E c \in Clients :
        /\ Done(c) /\ Deadline(c) > 0 /\ conn[c].waited
        /\ ~conn[c].fed /\ ~conn[c].lost
        /\ conn[c].out = <<NullReply>> /\ conn[c].elapsed = Deadline(c)

\* C9 as stated: an XREAD with BLOCK that was suspended when an entry with
\* ID greater than the requested one was appended before the deadline does
\* not reply the timeout null reply.
C9_FedRepliesData ==
    \A c \in Clients :
        (Done(c) /\ conn[c].cmd = "XREAD" /\ conn[c].early) =>
            conn[c].out # <<NullReply>>

\* the positions of the entries at key with ID greater than i
After(sk, key, i) ==
    {n \in 1..Len(EntriesAt(sk, key)) : streamCmp(EntriesAt(sk, key)[n].ID, i) = 1}
\* an evaluation of the predicate by an XREAD that was fed: with entries after
\* i in the stream it replies the first COUNT of them in ascending order,
\* without any it goes on waiting or times out
C9_EvalStep ==
    \A c \in Clients :
        (last'.cmd = "Eval" /\ last'.args = <<Kw(c)>> /\ conn[c].cmd = "XREAD" /\ conn[c].fed) =>
            LET key == conn[c].o.streams[1]
                i == parseStreamID(conn[c].o.ids[1]).id
                entries == EntriesAt(streamKeys, key)
                after == After(streamKeys, key, i)
                want == IF conn[c].o.count = 0 THEN Cardinality(after)
                        ELSE Min(conn[c].o.count, Cardinality(after))
                ids == BulkIDs(conn'[c].out)
            IN  IF after = {}
                THEN Waiting(c)' \/ (Done(c)' /\ conn'[c].out = <<NullReply>>)
                ELSE /\ Done(c)'
                     /\ conn'[c].out[1] = WriteLen(1)
                     /\ conn'[c].out[3] = WriteBulk(Kw(key))
                     /\ Len(ids) = want
                     /\ Increasing(ids)
                     /\ \A j \in 1..Len(ids) : \E n \in after : entries[n].ID = ids[j]
                     /\ \A n \in after :
                            (\A j \in 1..Len(ids) : entries[n].ID # ids[j]) =>
                                \A j \in 1..Len(ids) : streamCmp(entries[n].ID, ids[j]) = 1
\* C9 (amended): a suspended XREAD that is notified evaluates its predicate
\* again; if an entry with ID greater than i was appended during the wait
\* and entries with ID greater than i are in the stream at that evaluation,
\* it replies with them (ascending, at most COUNT) and not with null; it
\* replies null only when none is left.
C9_FedReadsWhatIsLeft ==
    /\ [][C9_EvalStep]_vars
    /\ \A c \in Clients : (Waiting(c) /\ conn[c].signalled) ~> ~Waiting(c)

\* an XREAD COUNT 1 was suspended, two entries were appended, it replied one
C9_Witness ==
    \E c \in Clients :
        /\ Done(c) /\ conn[c].cmd = "XREAD" /\ conn[c].waited /\ conn[c].early
        /\ conn[c].o.count = 1
        /\ Len(BulkIDs(conn[c].out)) = 1
        /\ Len(EntriesAt(streamKeys, conn[c].o.streams[1])) = 2

\* a command of each kind
SomeXadd == <<Kw("s1"), Star, Field, Value>>
SomeXdel == <<Kw("s1"), Tok(ID(1, 0))>>
SomeXack == <<Kw("s1"), Kw("g"), Tok(ID(1, 0))>>
SomeXread == <<Kw("BLOCK"), Num(1), Kw("STREAMS"), Kw("s1"), Num(0)>>
\* C10: a suspended read does not hold the lock, the lock is only ever held
\* by a read that is evaluating its predicate, and while reads are suspended
\* and none is evaluating, XADD, XDEL, XACK and the read of another client
\* can run; the predicate is evaluated only by the holder of the lock.
C10_Inv ==
    /\ \A c \in Clients : Waiting(c) => lock # c
    /\ lock # NoClient => conn[lock].pc = "eval"
    /\ ((\E c \in Clients : Waiting(c)) /\ (\A c \in Clients : conn[c].pc # "eval")) =>
            /\ ENABLED cmdXadd(SomeXadd)
            /\ ENABLED cmdXdel(SomeXdel)
            /\ ENABLED cmdXack(SomeXack)
            /\ \A d \in Clients : Fresh(d) => ENABLED blocking(d, "XREAD", SomeXread)
C10_EvalStep == last'.cmd = "Eval" => last'.args = <<Kw(lock)>>
C10_WaitsWithoutLock == []C10_Inv /\ [][C10_EvalStep]_vars

\* both reads are suspended and the lock is free
C10_Witness ==
    /\ \A c \in Clients : Waiting(c)
    /\ lock = NoClient


(***************************************************************************)
(* Cancellation of a blocked read (SpecCancel).                            *)
(***************************************************************************)
SpecCancelFair == SpecCancel /\ BlockFairness

Closed(c) == Blocked(c) /\ conn[c].closed
Cancelled(c) == conn[c].pc = "cancelled"

\* no reply has been written to a connection closed during its read, and
\* such a read is never completed
C11_Inv ==
    \A c \in Clients :
        (Closed(c) \/ Cancelled(c)) => conn[c].out = <<>> /\ ~Done(c)

\* the round of a closed connection ends the read and changes no stream, no
\* group cursor and no pending row; no later step writes to the connection
C11_Step ==
    \A c \in Clients :
        /\ (Closed(c) /\ last'.cmd = "Eval" /\ last'.args = <<Kw(c)>>) =>
                /\ Cancelled(c)'
                /\ conn'[c].out = <<>>
                /\ UNCHANGED <<keys, streamKeys, keyVersion>>
        /\ Cancelled(c) => conn'[c] = conn[c]

\* C11: when the connection of a blocked read is closed, the wait ends,
\* nothing is written to that client, and the cancelled read changes no
\* stream, group cursor or pending row, whatever is appended afterwards
C11_Cancel ==
    /\ []C11_Inv
    /\ [][C11_Step]_vars
    /\ \A c \in Clients : Closed(c) ~> Cancelled(c)

\* a group read was cancelled although an entry it asked for had been
\* appended: the entry is in the stream, undelivered
C11_Witness ==
    /\ Cancelled("c2")
    /\ conn["c2"].cmd = "XREADGROUP"
    /\ conn["c2"].fed
    /\ "s1" \in DOMAIN streamKeys
    /\ "g" \in DOMAIN streamKeys["s1"].groups
    /\ streamKeys["s1"].entries # <<>>
    /\ streamKeys["s1"].groups["g"].pending = <<>>
    /\ streamCmp(streamKeys["s1"].groups["g"].lastID, TopID("s1")) = -1


(***************************************************************************)
(* Range scans (SpecRange).                                                *)
(***************************************************************************)
RECURSIVE Reverse(_)
Reverse(s) == IF s = <<>> THEN <<>> ELSE Append(Reverse(Tail(s)), Head(s))

IsXrange(l) == l.cmd \in {"XRANGE", "XREVRANGE"}
IsStream(k) == k \in DOMAIN keys /\ keys[k] = "stream"

\* C12: the forward scan from "-" to "+" without count returns all entries
\* of the stream in ascending ID order, and the reverse scan over the same
\* range returns exactly the reverse of that sequence
C12_Step ==
    \A k \in Keys :
        LET all == EntriesAt(streamKeys, k)
        IN  /\ (last'.cmd = "XRANGE" /\ last'.args = <<Kw(k), Minus, Plus>> /\ IsStream(k)) =>
                    /\ last'.out = writeXrange(all)
                    /\ Increasing(EntryIDs(all))
            /\ (last'.cmd = "XREVRANGE" /\ last'.args = <<Kw(k), Plus, Minus>> /\ IsStream(k)) =>
                    last'.out = writeXrange(Reverse(all))
C12_FullScan == [][C12_Step]_vars

\* a reverse scan of the whole of a stream of three entries
C12_Witness ==
    /\ last.cmd = "XREVRANGE"
    /\ last.args = <<Kw("s1"), Plus, Minus>>
    /\ IsStream("s1")
    /\ Len(streamKeys["s1"].entries) = 3
    /\ last.out = writeXrange(Reverse(streamKeys["s1"].entries))

\* the two ends of the range a scan asks for: a bound without sequence
\* number covers its whole millisecond
Lower(tok) ==
    IF tok.k = "-" THEN ZeroID
    ELSE IF tok.k = "+" THEN ID(MaxUint64, MaxUint64)
    ELSE ID(tok.ms, IF tok.k = "id" THEN tok.seq ELSE 0)
Upper(tok) ==
    IF tok.k = "-" THEN ZeroID
    ELSE IF tok.k = "+" THEN ID(MaxUint64, MaxUint64)
    ELSE ID(tok.ms, IF tok.k = "id" THEN tok.seq ELSE MaxUint64)
IsBound(tok) == tok.k \in {"-", "+", "id"} \/ (tok.k = "int" /\ tok.ms >= 0)
\* the count of a scan, 0 when none is given
CountOf(args) == IF Len(args) = 5 THEN args[5].ms ELSE 0
\* a scan with two bounds and, if any, a count that is a natural number
IsScan(l) ==
    /\ IsXrange(l)
    /\ Len(l.args) \in {3, 5}
    /\ IsBound(l.args[2]) /\ IsBound(l.args[3])
    /\ Len(l.args) = 5 => l.args[4] = Kw("COUNT") /\ l.args[5].k = "int" /\ l.args[5].ms >= 0
\* the entries of es with an ID from lo to hi, both included
Between(es, lo, hi) ==
    SelectIdx(es, [i \in 1..Len(es) |->
                        streamCmp(es[i].ID, lo) >= 0 /\ streamCmp(es[i].ID, hi) <= 0], 1)
\* what a scan is to return: the entries in range in scan order, the first
\* count of them when a count other than 0 is given
Scanned(l, es) ==
    LET rev == l.cmd = "XREVRANGE"
        lo == Lower(l.args[IF rev THEN 3 ELSE 2])
        hi == Upper(l.args[IF rev THEN 2 ELSE 3])
        in == Between(es, lo, hi)
        scan == IF rev THEN Reverse(in) ELSE in
    IN  IF CountOf(l.args) = 0 THEN scan
        ELSE SubSeq(scan, 1, Min(CountOf(l.args), Len(scan)))

C13_Step ==
    /\ IsXrange(last') => UNCHANGED <<keys, streamKeys, keyVersion>>
    /\ \A k \in Keys :
        (IsScan(last') /\ last'.args[1] = Kw(k) /\ IsStream(k)) =>
            last'.out = writeXrange(Scanned(last', EntriesAt(streamKeys, k)))

\* C13: XRANGE and XREVRANGE return an entry if and only if its ID lies
\* between the two bounds, both included, ascending for the forward scan and
\* descending for the reverse scan, cut to the first count matches in scan
\* order, count 0 meaning no cut; the scan changes no state
C13_RangeScan == [][C13_Step]_vars

\* a reverse scan with COUNT 1 of a stream with an entry above the range,
\* two in it and none returned but the higher of the two
C13_Witness ==
    /\ last.cmd = "XREVRANGE"
    /\ last.args = <<Kw("s1"), Num(1), Minus, Kw("COUNT"), Num(1)>>
    /\ IsStream("s1")
    /\ EntryIDs(streamKeys["s1"].entries) = <<ID(1, 0), ID(1, 1), ID(2, 0)>>
    /\ last.out = writeXrange(<<streamKeys["s1"].entries[2]>>)


(***************************************************************************)
(* XDEL and the groups, XPENDING (SpecPending).                            *)
(***************************************************************************)
\* the IDs XDEL is given (args are key id...)
DelIDs(args) == {parseStreamID(args[i]).id : i \in 2..Len(args)}
\* the pending rows a reply of the detail query lists, as <<id, consumer>>
ListedRows(out) ==
    LET at == {i \in 1..Len(out) : out[i] = WriteLen(4) /\ i > 1}
    IN  {<<IdOf(out[i + 1].v), out[i + 2].v.k>> : i \in at}

C14_DelStep ==
    (last'.cmd = "XDEL" /\ Len(last'.args) >= 2) =>
        LET k == last'.args[1].k
            ids == DelIDs(last'.args)
            before == EntriesAt(streamKeys, k)
            after == EntriesAt(streamKeys', k)
            kept == SelectIdx(before, [i \in 1..Len(before) |-> before[i].ID \notin ids], 1)
        IN  /\ k \notin DOMAIN keys =>
                    last'.out = <<WriteInt(0)>> /\ UNCHANGED <<keys, streamKeys>>
            /\ IsStream(k) =>
                    /\ after = kept
                    /\ last'.out = <<WriteInt(Len(before) - Len(kept))>>
                    /\ streamKeys'[k].groups = streamKeys[k].groups
                    /\ streamKeys'[k].lastID = streamKeys[k].lastID
                    /\ keys' = keys

\* XPENDING key group - + 5 lists every pending row of the group, whether
\* the entry is still in the stream or not
C14_PendingStep ==
    \A k \in Keys, g \in Groups :
        (/\ last'.cmd = "XPENDING"
         /\ last'.args = <<Kw(k), Kw(g), Minus, Plus, Num(5)>>
         /\ HasGroup(streamKeys, k, g)
         /\ streamKeys[k].groups[g].pending # <<>>) =>
            ListedRows(last'.out) =
                {<<r.id, r.consumer>> : r \in Range(streamKeys[k].groups[g].pending)}

\* C14: XDEL removes exactly the entries with one of the given IDs, replies
\* their number (0 when the key does not exist, IDs that match nothing are
\* passed over), and leaves the cursor and the pending rows of every group as
\* they are, so that XPENDING still shows the row of a deleted entry
C14_Xdel == [][C14_DelStep]_vars /\ [][C14_PendingStep]_vars

\* XPENDING lists the row of an entry that XDEL has removed from the stream
C14_Witness ==
    /\ last.cmd = "XPENDING"
    /\ last.args = <<Kw("s1"), Kw("g"), Minus, Plus, Num(5)>>
    /\ HasGroup(streamKeys, "s1", "g")
    /\ \E r \in ListedRows(last.out) :
            /\ r[1] \in Range(PendingIDs(streamKeys["s1"].groups["g"]))
            /\ r[1] \notin Range(EntryIDs(streamKeys["s1"].entries))
            /\ r[1] \in Range(HistoryIDs("s1"))


(***************************************************************************)
(* The reply of a group read over several streams (SpecMulti).             *)
(***************************************************************************)
\* XREADGROUP without BLOCK on streams that all have the group, each named
\* once, with IDs that are ">" or well-formed
IsGroupRead(l) ==
    /\ l.cmd = "XREADGROUP"
    /\ LET o == xreadgroupParse(l.args)
       IN  /\ o.err = "" /\ ~o.block
           /\ \A i \in 1..Len(o.streams) :
                /\ HasGroup(streamKeys, o.streams[i], o.group)
                /\ o.ids[i].k = ">" \/ parseStreamID(o.ids[i]).ok
                /\ \A j \in 1..Len(o.streams) : o.streams[j] = o.streams[i] => j = i
\* the entries the read of the i-th stream yields
Yield(o, i) ==
    readGroup(streamKeys[o.streams[i]].groups[o.group], streamKeys[o.streams[i]].entries,
              now, o.consumer, o.ids[i], o.count, o.noack).entries
\* the reply that lists the streams at the indices in idx, in request order
Listing(o, idx) ==
    IF idx = {} THEN <<NullReply>>
    ELSE <<WriteLen(Cardinality(idx))>> \o
         Concat([i \in 1..Len(o.streams) |->
            IF i \notin idx THEN <<>>
            ELSE <<WriteLen(2), WriteBulk(Kw(o.streams[i])), WriteLen(Len(Yield(o, i)))>>
                 \o Concat([j \in 1..Len(Yield(o, i)) |-> writeEntry(Yield(o, i)[j])])])

\* C15 as stated: the reply lists the streams that yielded entries and no
\* other, in request order, and is the null reply when none yielded any,
\* whether the IDs are ">" or concrete
C15_Step ==
    IsGroupRead(last') =>
        LET o == xreadgroupParse(last'.args)
        IN  last'.out = Listing(o, {i \in 1..Len(o.streams) : Yield(o, i) # <<>>})
C15_OnlyYielding == [][C15_Step]_vars

C15_AmendedStep ==
    IsGroupRead(last') =>
        LET o == xreadgroupParse(last'.args)
        IN  last'.out = Listing(o, {i \in 1..Len(o.streams) :
                                        Yield(o, i) # <<>> \/ o.ids[i].k # ">"})
\* C15 amended: the reply lists, in request order, the streams read with ">"
\* that yielded entries and every stream read with a concrete ID, the latter
\* with an empty list when it yielded none; it is the null reply only when
\* every stream was read with ">" and none yielded any
C15_ListsConcrete == [][C15_AmendedStep]_vars

\* a read of two streams, the first with ">" and nothing new, the second
\* with a concrete ID and nothing pending: the reply lists the second alone,
\* without entries
C15_Witness ==
    /\ last.cmd = "XREADGROUP"
    /\ last.args = <<Kw("GROUP"), Kw("g"), Kw("alice"), Kw("STREAMS"),
                     Kw("s1"), Kw("s2"), Gt, Num(0)>>
    /\ last.out = <<WriteLen(1), WriteLen(2), WriteBulk(Kw("s2")), WriteLen(0)>>
    /\ streamKeys["s1"].entries # <<>>
    /\ streamKeys["s2"].entries # <<>>


(***************************************************************************)
(* The pending summary and the pending detail query (SpecPending).         *)
(***************************************************************************)
\* the least and the greatest of a non-empty set of IDs
MinID(ids) == CHOOSE a \in ids : \A b \in ids : streamCmp(a, b) <= 0
MaxID(ids) == CHOOSE a \in ids : \A b \in ids : streamCmp(a, b) >= 0
\* the consumers that own a pending row of g
Owners(g) == {g.pending[i].consumer : i \in 1..Len(g.pending)}
RowsOf(g, c) == Cardinality({i \in 1..Len(g.pending) : g.pending[i].consumer = c})
\* the position of a consumer name in the order of names
NameRank(c) == CHOOSE i \in 1..Len(ByName) : ByName[i] = c
\* the consumer list of a summary reply: <<name, rows>> in reply order
SummaryList(out) ==
    [i \in 1..((Len(out) - 5) \div 3) |-> <<out[5 + 3 * i - 1].v.k, out[5 + 3 * i].v.ms>>]

C16_Step ==
    \A k \in Keys, g \in Groups :
        (/\ last'.cmd = "XPENDING" /\ last'.args = <<Kw(k), Kw(g)>>
         /\ HasGroup(streamKeys, k, g)) =>
            LET gr == streamKeys[k].groups[g]
                ids == Range(PendingIDs(gr))
                out == last'.out
                list == SummaryList(out)
            IN  IF gr.pending = <<>>
                THEN out = <<WriteLen(4), WriteInt(0), WriteNull, WriteNull, NullReply>>
                ELSE /\ Len(out) = 5 + 3 * Cardinality(Owners(gr))
                     /\ out[1] = WriteLen(4)
                     /\ out[2] = WriteInt(Len(gr.pending))
                     /\ out[3] = WriteBulk(Tok(MinID(ids)))
                     /\ out[4] = WriteBulk(Tok(MaxID(ids)))
                     /\ out[5] = WriteLen(Cardinality(Owners(gr)))
                     /\ {list[i][1] : i \in 1..Len(list)} = Owners(gr)
                     /\ \A i \in 1..Len(list) :
                            /\ out[5 + 3 * i - 2] = WriteLen(2)
                            /\ out[5 + 3 * i] = WriteBulk(Num(RowsOf(gr, list[i][1])))
                            /\ \A j \in 1..Len(list) :
                                    i < j => NameRank(list[i][1]) < NameRank(list[j][1])

\* C16: the pending summary of a group reports the number of pending rows,
\* the smallest and the largest pending ID, and exactly the consumers that
\* own a pending row, sorted by name, each with its number of rows; with no
\* row pending it reports 0, null, null and a null consumer list
C16_Summary == [][C16_Step]_vars

\* a summary of two rows, one of alice and one of bob
C16_Witness ==
    /\ last.cmd = "XPENDING" /\ last.args = <<Kw("s1"), Kw("g")>>
    /\ HasGroup(streamKeys, "s1", "g")
    /\ Len(streamKeys["s1"].groups["g"].pending) = 2
    /\ Owners(streamKeys["s1"].groups["g"]) = {"alice", "bob"}
    /\ Len(last.out) = 11

\* a summary taken when a consumer the group has seen owns no row
C16_WitnessIdle ==
    /\ last.cmd = "XPENDING" /\ last.args = <<Kw("s1"), Kw("g")>>
    /\ HasGroup(streamKeys, "s1", "g")
    /\ Owners(streamKeys["s1"].groups["g"]) = {"bob"}
    /\ streamKeys["s1"].groups["g"].consumers = {"alice", "bob"}
    /\ Len(last.out) = 8


\* XPENDING key group start end count [consumer] with well-formed bounds and
\* an integer count, on a key where the group exists
IsDetail(l) ==
    /\ l.cmd = "XPENDING"
    /\ Len(l.args) \in {5, 6}
    /\ IsBound(l.args[3]) /\ IsBound(l.args[4])
    /\ l.args[5].k = "int"
    /\ HasGroup(streamKeys, l.args[1].k, l.args[2].k)
\* the rows a reply of the detail query lists, in reply order, as
\* <<id, consumer, idle, deliveries>>; none for a null or empty reply
DetailRows(out) ==
    [i \in 1..Max(out[1].n, 0) |->
        <<IdOf(out[5 * i - 2].v), out[5 * i - 1].v.k, out[5 * i].n, out[5 * i + 1].n>>]
\* the rows the query is to list
Wanted(l) ==
    LET gr == streamKeys[l.args[1].k].groups[l.args[2].k]
        lo == Lower(l.args[3])
        hi == Upper(l.args[4])
        limit == l.args[5].ms
        in == SelectIdx(gr.pending,
                [i \in 1..Len(gr.pending) |->
                    /\ streamCmp(gr.pending[i].id, lo) >= 0
                    /\ streamCmp(gr.pending[i].id, hi) <= 0
                    /\ Len(l.args) = 6 => gr.pending[i].consumer = l.args[6].k], 1)
        cut == IF limit <= 0 THEN <<>> ELSE SubSeq(in, 1, Min(limit, Len(in)))
    IN  [i \in 1..Len(cut) |->
            <<cut[i].id, cut[i].consumer, now - cut[i].lastDelivery, cut[i].deliveryCount>>]

C17_Step ==
    /\ last'.cmd = "XPENDING" => UNCHANGED <<keys, streamKeys, keyVersion, now>>
    /\ IsDetail(last') =>
        LET rows == DetailRows(last'.out)
        IN  /\ last'.out[1].t = "len"
            /\ Len(last'.out) = 1 + 5 * Len(rows)
            /\ rows = Wanted(last')
            /\ Increasing([i \in 1..Len(rows) |-> rows[i][1]])
            /\ \A i \in 1..Len(rows) : last'.out[5 * i - 3] = WriteLen(4)

\* C17: the pending detail query lists, in ascending ID order, the pending
\* rows with an ID from the start to the end bound, both included, of the
\* consumer given if one is given, cut to the first limit of them, and no
\* row for a limit of zero or less; the idle time of a row is now minus its
\* last delivery in milliseconds; the query changes no state
C17_Detail == [][C17_Step]_vars

\* of the rows of alice and bob, a query for alice with limit 5 lists hers
\* alone, idle for a millisecond
C17_Witness ==
    /\ last.cmd = "XPENDING"
    /\ last.args = <<Kw("s1"), Kw("g"), Minus, Plus, Num(5), Kw("alice")>>
    /\ HasGroup(streamKeys, "s1", "g")
    /\ Owners(streamKeys["s1"].groups["g"]) = {"alice", "bob"}
    /\ Len(last.out) = 6
    /\ last.out[4] = WriteBulk(Kw("alice"))
    /\ last.out[5] = WriteInt(1)

\* a query with limit -1 on a group with pending rows lists none
C17_WitnessNegative ==
    /\ last.cmd = "XPENDING"
    /\ last.args = <<Kw("s1"), Kw("g"), Minus, Plus, Num(-1)>>
    /\ HasGroup(streamKeys, "s1", "g")
    /\ streamKeys["s1"].groups["g"].pending # <<>>
    /\ last.out = <<NullReply>>


(***************************************************************************)
(* XREADGROUP with a concrete ID (SpecPending).                            *)
(***************************************************************************)
\* XREADGROUP GROUP g c [COUNT n] STREAMS key id with a well-formed id, on a
\* key where the group exists
IsReplay(l) ==
    /\ l.cmd = "XREADGROUP"
    /\ LET o == xreadgroupParse(l.args)
       IN  /\ o.err = ""
           /\ Len(o.streams) = 1
           /\ o.ids[1].k # ">" /\ parseStreamID(o.ids[1]).ok
           /\ HasGroup(streamKeys, o.streams[1], o.group)

C18_Step ==
    IsReplay(last') =>
        LET o == xreadgroupParse(last'.args)
            k == o.streams[1]
            gr == streamKeys[k].groups[o.group]
            from == parseStreamID(o.ids[1]).id
            own == {gr.pending[i].id : i \in {j \in 1..Len(gr.pending) :
                        /\ gr.pending[j].consumer = o.consumer
                        /\ streamCmp(gr.pending[j].id, from) = 1}}
        IN  /\ Range(BulkIDs(last'.out)) \subseteq own
            /\ streamKeys'[k].groups[o.group].pending = gr.pending
            /\ streamKeys'[k].groups[o.group].lastID = gr.lastID
            /\ streamKeys'[k].entries = streamKeys[k].entries
            /\ UNCHANGED <<keys, keyVersion>>

\* C18: XREADGROUP with a concrete ID i returns only pending rows of the
\* calling consumer with an ID greater than i; it creates no pending row,
\* leaves the cursor where it is, and leaves the last delivery and the
\* delivery count of every pending row as they are
C18_Replay == [][C18_Step]_vars

\* alice, with the rows 1-0 and 1-1 pending, reads from 1-0 and gets 1-1
\* back; an entry she has not been delivered stays undelivered
C18_Witness ==
    /\ last.cmd = "XREADGROUP"
    /\ last.args = <<Kw("GROUP"), Kw("g"), Kw("alice"), Kw("STREAMS"), Kw("s1"),
                     Tok(ID(1, 0))>>
    /\ HasGroup(streamKeys, "s1", "g")
    /\ BulkIDs(last.out) = <<ID(1, 1)>>
    /\ PendingIDs(streamKeys["s1"].groups["g"]) = <<ID(1, 0), ID(1, 1)>>


(***************************************************************************)
(* XGROUP CREATE and its errors (SpecPending).                             *)
(***************************************************************************)
\* XGROUP CREATE key group id [MKSTREAM]
IsCreate(l) ==
    /\ l.cmd = "XGROUP"
    /\ Len(l.args) \in {4, 5}
    /\ l.args[1] = Kw("CREATE")
    /\ Len(l.args) = 5 => l.args[5] = Kw("MKSTREAM")
\* the cases in which XGROUP CREATE is to fail
CreateFails(l) ==
    LET k == l.args[2].k
    IN  \/ HasGroup(streamKeys, k, l.args[3].k)
        \/ k \notin DOMAIN keys /\ Len(l.args) = 4
        \/ l.args[4].k # "$" /\ ~parseStreamID(l.args[4]).ok

C19_Step ==
    (IsCreate(last') /\ CreateFails(last')) =>
        /\ Len(last'.out) = 1 /\ last'.out[1].t = "error"
        /\ UNCHANGED <<keys, streamKeys, keyVersion>>

\* C19: XGROUP CREATE replies an error when the group exists, when the key
\* does not exist and MKSTREAM is not given, and when the start ID is
\* malformed, and in each of these cases the database is as it was: the
\* group keeps its cursor and its pending rows, and no stream is left at a
\* key that did not exist, with MKSTREAM or without
C19_CreateErrorLeavesUnchanged == [][C19_Step]_vars


(***************************************************************************)
(* Deliveries of new entries to the consumers of a group (SpecDeliver).    *)
(***************************************************************************)
Cursor(sk, k, g) == sk[k].groups[g].lastID
\* the IDs a connection was delivered by its blocked read
Got(c) == IF Done(c) THEN Range(BulkIDs(conn[c].out)) ELSE {}

\* the pending rows lie at or below the cursor and no ID is pending twice;
\* no ID was delivered to two blocked reads, nor to a blocked read and to
\* the read without BLOCK that ran last
C20_Inv ==
    /\ \A k \in Keys, g \in Groups :
        HasGroup(streamKeys, k, g) =>
            /\ \A id \in Range(PendingIDs(streamKeys[k].groups[g])) :
                    streamCmp(id, Cursor(streamKeys, k, g)) <= 0
            /\ Increasing(PendingIDs(streamKeys[k].groups[g]))
    /\ Got("c1") \cap Got("c2") = {}
    /\ last.cmd = "XREADGROUP" =>
            \A c \in Clients : Range(BulkIDs(last.out)) \cap Got(c) = {}

\* ids are delivered from group g of key k in this step: each lies above
\* the cursor, none comes twice, and the cursor moves to the last of them
Delivers(k, g, ids) ==
    /\ Increasing(ids)
    /\ \A i \in 1..Len(ids) : streamCmp(ids[i], Cursor(streamKeys, k, g)) = 1
    /\ Cursor(streamKeys', k, g) =
            IF ids = <<>> THEN Cursor(streamKeys, k, g) ELSE ids[Len(ids)]

C20_Step ==
    /\ \A k \in Keys, g \in Groups :
        (HasGroup(streamKeys, k, g) /\ HasGroup(streamKeys', k, g)) =>
            streamCmp(Cursor(streamKeys', k, g), Cursor(streamKeys, k, g)) >= 0
    /\ (last'.cmd = "XREADGROUP" /\ xreadgroupParse(last'.args).err = "") =>
            LET o == xreadgroupParse(last'.args)
            IN  (o.ids = <<Gt>> /\ HasGroup(streamKeys, o.streams[1], o.group)) =>
                    Delivers(o.streams[1], o.group, BulkIDs(last'.out))
    /\ \A c \in Clients :
        (/\ last'.cmd = "Eval" /\ last'.args = <<Kw(c)>>
         /\ conn[c].cmd = "XREADGROUP"
         /\ HasGroup(streamKeys, conn[c].o.streams[1], conn[c].o.group)) =>
            Delivers(conn[c].o.streams[1], conn[c].o.group,
                     IF Done(c)' THEN BulkIDs(conn'[c].out) ELSE <<>>)

\* C20: in one group, however XREADGROUP ">" with and without BLOCK of
\* several consumers interleaves with XADD, XDEL and XACK, an entry ID is
\* delivered by ">" reads at most once (every delivery lies above the cursor
\* and moves the cursor onto its last ID), the cursor never decreases, and
\* every pending row lies at or below the cursor
C20_AtMostOnce == []C20_Inv /\ [][C20_Step]_vars

\* both blocked consumers were served, each with an entry of its own, and
\* one of the entries is acknowledged
C20_Witness ==
    /\ Got("c1") # {} /\ Got("c2") # {}
    /\ HasGroup(streamKeys, "s1", "g")
    /\ Len(streamKeys["s1"].groups["g"].pending) = 1
    /\ Cardinality(Range(HistoryIDs("s1"))) = 3


(***************************************************************************)
(* A group read over several streams that fails (SpecMulti).               *)
(***************************************************************************)
\* the reply is an error and nothing else
IsErrorReply(out) == Len(out) = 1 /\ out[1].t = "error"

C21_Step ==
    (/\ last'.cmd = "XREADGROUP"
     /\ xreadgroupParse(last'.args).err = ""
     /\ IsErrorReply(last'.out)) =>
        \A k \in Keys, g \in Groups :
            HasGroup(streamKeys, k, g) =>
                /\ HasGroup(streamKeys', k, g)
                /\ Cursor(streamKeys', k, g) = Cursor(streamKeys, k, g)
                /\ streamKeys'[k].groups[g].pending = streamKeys[k].groups[g].pending

\* C21: an XREADGROUP over several streams that replies an error (a group
\* is missing, a key holds another type, an ID is malformed) has moved no
\* cursor and created no pending row on any stream it names, the streams
\* named before the failing one included
C21_ErrorLeavesGroups == [][C21_Step]_vars


(***************************************************************************)
(* The length query (SpecLen).                                             *)
(***************************************************************************)
C22_Step ==
    (last'.cmd = "XLEN" /\ Len(last'.args) = 1) =>
        LET k == last'.args[1].k
        IN  /\ Len(last'.out) = 1
            /\ IsStream(k) => last'.out = <<WriteInt(Len(streamKeys[k].entries))>>
            /\ k \notin DOMAIN keys => last'.out = <<WriteInt(0)>>
            /\ (k \in DOMAIN keys /\ ~IsStream(k)) =>
                    last'.out = <<WriteError(msgWrongType)>>

\* C22: XLEN writes one reply in every case: the number of entries when the
\* key holds a stream, 0 when the key does not exist, and the wrong-type
\* error alone, no integer after it, when the key holds another type
C22_OneReply == [][C22_Step]_vars


(***************************************************************************)
(* BLOCK with a concrete ID (SpecWait).                                    *)
(***************************************************************************)
HasBlock(args) == Len(args) >= 5 /\ IsWord(args[4], "BLOCK")
\* the same command without its BLOCK option
WithoutBlock(args) == SubSeq(args, 1, 3) \o SubSeq(args, 6, Len(args))
AllNew(ids) == \A i \in 1..Len(ids) : ids[i] = Gt

C23_Step ==
    /\ (/\ last'.cmd \in {"XREADGROUP", "blocking"}
        /\ HasBlock(last'.args)
        /\ xreadgroupParse(WithoutBlock(last'.args)).err = ""
        /\ ~AllNew(xreadgroupParse(WithoutBlock(last'.args)).ids)) =>
            LET e == xreadgroupNow(xreadgroupParse(WithoutBlock(last'.args)))
            IN  /\ last'.cmd = "XREADGROUP"
                /\ last'.out = e.out
                /\ last'.out # <<>>
                /\ streamKeys' = e.streamKeys
                /\ conn' = conn
                /\ lock' = lock
    /\ \A c \in Clients :
            (conn'[c].pc \in {"eval", "waiting"} /\ conn'[c].cmd = "XREADGROUP") =>
                AllNew(conn'[c].o.ids)

\* C23: an XREADGROUP with BLOCK and at least one ID that is not > never
\* suspends: it runs as one non-blocking read and replies in the same step,
\* with or without data; only a read whose IDs are all > is ever waiting
C23_ConcreteNeverWaits == [][C23_Step]_vars

\* a BLOCK read of s1 > and s2 0 was answered at once with nothing to
\* deliver, while another read of new entries only is suspended
C23_Witness ==
    /\ last.cmd = "XREADGROUP"
    /\ HasBlock(last.args)
    /\ Len(last.args) = 10
    /\ last.args[9] = Gt /\ last.args[10] # Gt
    /\ ~IsErrorReply(last.out)
    /\ streamKeys["s1"].entries = <<>> /\ streamKeys["s2"].entries = <<>>
    /\ Waiting("c1")

====
